---- MODULE Spec2Model ----
(***************************************************************************)
(* A model of wtfport: the platform adapters, the ConcurrencyLimiter       *)
(* behind spawnProcess, the dashboard's state machine and renderer, the    *)
(* port actions, the process metadata cache and the keyboard handler.      *)
(*                                                                         *)
(* Several specifications share the module.  Each one moves its own        *)
(* group of variables and leaves the others at their initial values:       *)
(*   SpecKill      one adapter instance, its cached pids, killProcess      *)
(*   SpecLimiter   ConcurrencyLimiter.run and the settling of its tasks    *)
(*   SpecLimiterLive  SpecLimiter with started tasks settling in the end   *)
(*   SpecDash      DashboardState under key events, timer ticks and        *)
(*                 completions of asynchronous handlers, from              *)
(*                 construction until the program is quit; snapshots       *)
(*                 are sorted by port, the default sort key                *)
(*   SpecParse     detectPorts of both adapters on listings of lsof        *)
(*                 and netstat lines                                       *)
(*   SpecRefresh   SpecDash without the modal keys, with state.ports       *)
(*                 and state.lastUpdate and a record of each refresh       *)
(*   SpecRender    one call of render() on a previous frame and a view     *)
(*   SpecKillPort  one call of killPortByNumber                            *)
(*   SpecCache     one CacheManager under its operations and a clock       *)
(*   SpecEtime     one call of parseEtime                                  *)
(*   SpecKeyboard  one KeyboardHandler under registrations and events      *)
(*   SpecSearch    the dashboard under the search keys, with the digits    *)
(*                 typed in each search                                    *)
(*   SpecFilter    one call of getFilteredPorts                            *)
(*   SpecHandleKill  one kill request of the dashboard, statement by       *)
(*                 statement                                               *)
(*   SpecAdapter   the adapter instances getPlatformAdapter makes and      *)
(*                 their caches                                            *)
(*   SpecModalKeys the dashboard under the keys of normal navigation, with *)
(*                 the sort key and the detail flag                        *)
(*   SpecSort      the order of the ports after refreshes and sort keys    *)
(*   SpecBatch     the getBatchProcessInfo passes of one adapter           *)
(*   SpecMeta      the metadata of one discovery cycle or lookup           *)
(*   SpecMemo      the memo of getFilteredPorts under its callers          *)
(*   SpecOverlap   calls of refresh() that overlap                         *)
(*   SpecConfirm   the keys around the confirmation modal                  *)
(***************************************************************************)
EXTENDS Integers, Sequences, FiniteSets, TLC

(***************************************************************************)
(* Bounds of the model.                                                    *)
(***************************************************************************)
\* pids 1..MaxPid are the processes an adapter is asked about
MaxPid == 2
\* number of run() submissions made beyond the limiter's limit
ExtraTasks == 2
\* longest port filter typed in search mode
MaxFilterLen == 1
\* asynchronous dashboard handlers suspended at an await at the same time
MaxPending == 2
\* lines in the output of one run of a listing tool
MaxLines == 2
\* discovery cycles that succeed
MaxCycles == 2
\* entries in the snapshot killPortByNumber works on
MaxEntries == 2
\* steps of the cache's clock
MaxTicks == 2

(***************************************************************************)
(* Program constants.                                                      *)
(***************************************************************************)
\* const processLimiter = new ConcurrencyLimiter(10)
limit == 10

Pids == 1..MaxPid

VARIABLES
  \* ---- adapter (unix-adapter.ts / windows-adapter.ts) ----
  platform,          \* process.platform: "unix" (darwin, linux) or "win32"
  processInfoCache,  \* pids that have an entry in the adapter's CacheManager
  killPc,            \* position of the killProcess call
  killPid,           \* its pid argument
  killForce,         \* its force argument
  killLog,           \* what the call has executed so far, in order
  killResult,        \* the value returned, meaningful once killPc = "returned"
  termRes,           \* result of the graceful request, NoRes until made
  checkRes,          \* result of the liveness check, NoRes until made
  forceRes,          \* result of the forceful command, NoRes until made
  \* ---- ConcurrencyLimiter (runtime-utils.ts) ----
  running,           \* this.running
  queue,             \* this.queue, the queued execute closures, by task id
  submitted,         \* number of run() calls made so far; ids are 1..submitted
  started,           \* task ids in the order their fn() was called
  settled,           \* task ids whose promise has resolved or rejected
  everQueued,        \* task ids that were pushed on the queue by run()
  lastOutcome,       \* how the last settled task ended: "resolve" | "reject"
  \* ---- Dashboard (dashboard.ts, dashboard-handlers.ts) ----
  phase,             \* "constructed", then "running" once start() has run
  groups,            \* state.groups: sequence of [id, collapsed, ports]
  selectedIndex,     \* state.selectedIndex
  filter,            \* state.filter, a string as a sequence of characters
  searchBuffer,      \* this.searchBuffer
  showHelp,          \* state.showHelp
  showConfirm,       \* state.showConfirm
  showLogs,          \* state.showLogs
  showCommand,       \* state.showCommand
  showStats,         \* state.showStats
  searching,         \* state.searching
  isKilling,         \* state.isKilling
  killingPort,       \* state.killingPort, NoPort for null
  filteredPortsCache,\* this.filteredPortsCache, NoCache for null
  pending,           \* asynchronous handlers suspended at an await, by place
  lastMove,          \* history: the moveSelection call of the last step, if any
  \* ---- detectPorts and the listing parsers (unix-adapter.ts, windows-adapter.ts) ----
  listing,           \* stdout of the listing tool: its non-blank lines, as fields
  detected,          \* the PortInfo list detectPorts() returned
  parsePc,           \* "start", then "returned" or "threw"
  \* ---- Dashboard.refresh(), the fields SpecDash leaves out (dashboard.ts) ----
  statePorts,        \* state.ports
  lastUpdate,        \* state.lastUpdate: 0 at construction, then the cycle's timestamp
  lastRefresh,       \* history: the state the refresh body of the last step started from
  \* ---- Dashboard.render() (dashboard.ts) ----
  view,              \* what render() reads of the state and of the terminal
  previousRenderState, \* this.previousRenderState, NoFrame for null
  frameBefore,       \* history: previousRenderState when render() was called
  toastBefore,       \* history: the kill message when render() was called
  toastPainted,      \* whether the frame of render() shows the kill message
  painted,           \* what the call painted
  renderPc,          \* "start", then "done"
  \* ---- killPortByNumber (port-actions, in windows-adapter.ts) ----
  kpSnapshot,        \* what detector.detectPorts() resolves with
  kpPort,            \* the port argument
  kpForce,           \* the force argument
  kpPc,              \* "idle", "detecting", "killing", "returned"
  kpMatching,        \* matchingPorts
  kpKilled,          \* killed
  kpFailed,          \* failed
  kpCalls,           \* history: the killProcess calls made, in order
  kpResults,         \* history: what each of them resolved to
  kpReturn,          \* the value returned, meaningful once kpPc = "returned"
  \* ---- CacheManager (the adapters' processInfoCache, with its clock) ----
  cmEntries,         \* the entries [pid, value, insertedAt], in insertion order
  cmNow,             \* Date.now(), in ms since the cache was constructed
  cmLastOp,          \* history: the last set or delete on each probed pid
  cmGot,             \* what the last step's get returned, NoGet otherwise
  \* ---- parseEtime (unix-adapter.ts) ----
  etElapsed,         \* the elapsed time ps reports: days, hours, minutes, seconds
  etStr,             \* etimeStr, its text in the etime column
  etResult,          \* what parseEtime returned, meaningful once etPc = "done"
  etPc,              \* "start", then "done"
  \* ---- KeyboardHandler (keyboard.ts) ----
  kbHandlers,        \* this.handlers: the keys that have a handler
  kbRawMode,         \* this.rawMode
  kbListening,       \* the "data" listener of start() is installed
  kbExited,          \* process.exit(0) was called
  kbCrashed,         \* an exception left the data listener uncaught
  kbEvent,           \* history: the key of the last event, NoEvent otherwise
  kbCalls,           \* history: the handler calls the last event made, in order
  \* ---- search mode (dashboard.ts, dashboard-handlers.ts) ----
  typed,             \* history: the digits typed in the current search mode
  \* ---- getFilteredPorts (dashboard.ts) ----
  fpGroups,          \* state.groups
  fpFilter,          \* state.filter
  fpResult,          \* what getFilteredPorts returned, once fpPc = "done"
  fpPc,              \* "start", then "done"
  \* ---- handleKill, statement by statement (dashboard-handlers.ts) ----
  hkPc,              \* "idle", "killPort", "delay", "refresh", "catchRefresh", "done", "rejected"
  hkSelected,        \* port of getSelectedPort(), NoPort when no row is selected
  hkKilling,         \* state.isKilling
  hkMemo,            \* the Port Detector holds a memoized snapshot
  hkThrown,          \* something has thrown inside handleKill
  hkOutcome,         \* how the adapter's killProcess ended, "none" before
  hkLog,             \* what handleKill has done so far, in order
  hkShown,           \* state.groups: "old", or "new" once a refresh has replaced them
  \* ---- adapter instances and their metadata caches (platform-factory.ts) ----
  paCaches,          \* per adapter instance, the pids its processInfoCache holds
  paListening,       \* the pids that own a listening socket
  paKilled,          \* the pids the dashboard has killed since the last discovery
  \* ---- the sort key, the detail flag and the key last handled ----
  sortBy,            \* state.sortBy: "port", "process" or "pid"
  showDetails,       \* state.showDetails
  keyed,             \* the kind of key just handled with a modal or the search active
  \* ---- the order of the ports in the groups (dashboard.ts refresh) ----
  srGroups,          \* state.groups
  srSortBy,          \* state.sortBy
  srCliSort,         \* filterOptions.sort, "none" when the option was not given
  srLast,            \* "refresh" or "sort": what has just completed, "none" before
  \* ---- one adapter's getBatchProcessInfo passes ----
  bpPlatform,        \* "unix" or "win32"
  bpEntries,         \* processInfoCache, entries in insertion order
  bpNow,             \* the clock, in ms
  bpPc,              \* "idle", or "fetching" while the commands run
  bpPids,            \* the pids of the pass
  bpBefore,          \* the cache and the clock when the pass was called
  bpUncached,        \* uncachedPids of the pass
  bpLog,             \* what the pass has done so far, in order
  \* ---- the metadata of one discovery cycle or one single-pid lookup ----
  mmPlatform,        \* "unix" or "win32"
  mmCaller,          \* "detectPorts" or "getProcessInfo", "none" before the call
  mmPids,            \* the pids getBatchProcessInfo is called with
  mmOut,             \* how the metadata commands of the pass ended
  mmInfo,            \* the Map getBatchProcessInfo returned
  mmPorts,           \* what detectPorts resolved with
  mmPc,              \* "start", then "done", or "rejected"
  \* ---- the memoized list of getFilteredPorts and its callers ----
  mzCliSort,         \* filterOptions.sort, "none" when the option is not given
  mzGroups,          \* state.groups
  mzFilter,          \* state.filter (and searchBuffer)
  mzSortBy,          \* state.sortBy
  mzSearching,       \* state.searching
  mzSelected,        \* state.selectedIndex
  mzCache,           \* filteredPortsCache
  mzCalls,           \* the calls of getFilteredPorts the last handler made
  mzPresses,         \* history: how many times "g" was pressed in a row, up to 2
  mzBeforeG,         \* history: state.groups before the first of these presses
  \* ---- overlapping refreshes ----
  ovWorld,           \* what is listening now, as the groups a discovery would give
  ovCalls,           \* the calls of refresh() so far, in the order they started
  ovGroups,          \* state.groups
  ovApplied,         \* the call whose snapshot state.groups holds, 0 for none
  \* ---- the confirmation modal ----
  cfShowHelp,        \* state.showHelp
  cfSearching,       \* state.searching
  cfShowConfirm,     \* state.showConfirm
  cfConfirmAction,   \* state.confirmAction: "null" or "action"
  cfSelected,        \* the port of the selected row, NoPort with no row
  cfCalls            \* the calls of killPort so far

killVars == <<platform, processInfoCache, killPc, killPid, killForce, killLog,
              killResult, termRes, checkRes, forceRes>>
limVars == <<running, queue, submitted, started, settled, everQueued, lastOutcome>>
dashVars == <<phase, groups, selectedIndex, filter, searchBuffer, showHelp,
              showConfirm, showLogs, showCommand, showStats, searching,
              isKilling, killingPort, filteredPortsCache, pending, lastMove>>
parseVars == <<listing, detected, parsePc>>
\* the groups other than the first three
refreshVars == <<statePorts, lastUpdate, lastRefresh>>
renderVars == <<view, previousRenderState, frameBefore, toastBefore, toastPainted,
                painted, renderPc>>
killPortVars == <<kpSnapshot, kpPort, kpForce, kpPc, kpMatching, kpKilled, kpFailed,
                  kpCalls, kpResults, kpReturn>>
cacheVars == <<cmEntries, cmNow, cmLastOp, cmGot>>
etimeVars == <<etElapsed, etStr, etResult, etPc>>
keyboardVars == <<kbHandlers, kbRawMode, kbListening, kbExited, kbCrashed, kbEvent,
                  kbCalls>>
searchVars == <<typed>>
filterVars == <<fpGroups, fpFilter, fpResult, fpPc>>
handleKillVars == <<hkPc, hkSelected, hkKilling, hkMemo, hkThrown, hkOutcome, hkLog, hkShown>>
adapterVars == <<paCaches, paListening, paKilled>>
keysVars == <<sortBy, showDetails, keyed>>
sortVars == <<srGroups, srSortBy, srCliSort, srLast>>
batchVars == <<bpPlatform, bpEntries, bpNow, bpPc, bpPids, bpBefore, bpUncached, bpLog>>
metaVars == <<mmPlatform, mmCaller, mmPids, mmOut, mmInfo, mmPorts, mmPc>>
memoVars == <<mzCliSort, mzGroups, mzFilter, mzSortBy, mzSearching, mzSelected, mzCache, mzCalls,
              mzPresses, mzBeforeG>>
overlapVars == <<ovWorld, ovCalls, ovGroups, ovApplied>>
confirmVars == <<cfShowHelp, cfSearching, cfShowConfirm, cfConfirmAction, cfSelected, cfCalls>>
\* the groups added after the keyboard handler
moreVars ==
  <<searchVars, filterVars, handleKillVars, adapterVars, keysVars, sortVars, batchVars,
    metaVars, memoVars, overlapVars, confirmVars>>
restVars == <<parseVars, refreshVars, renderVars, killPortVars, cacheVars, etimeVars,
              keyboardVars, moreVars>>
vars == <<killVars, limVars, dashVars, restVars>>

(***************************************************************************)
(* spawnProcess results.  The promise either resolves on "close" with the  *)
(* child's exit code (null when it was ended by a signal) and its stdout,  *)
(* or rejects on "error".                                                  *)
(***************************************************************************)
NullCode == -1

SpawnResults ==
  [kind : {"close"}, code : {NullCode, 0, 1}, out : BOOLEAN]
    \cup {[kind |-> "error", code |-> 0, out |-> FALSE]}

NoRes == [kind |-> "none", code |-> 0, out |-> FALSE]

\* exitCode: code || 0
exitCode(res) == IF res.code = NullCode THEN 0 ELSE res.code

(***************************************************************************)
(* Adapter: killProcess(pid, force)                                        *)
(*   unix-adapter.ts 351-413, windows-adapter.ts 435-501                   *)
(* Every await of the method is one step; the command it awaits is issued  *)
(* and completes in that step, with any result a child process can give.   *)
(***************************************************************************)

\* force path: killed = proc.exitCode === 0
KilledMut(res) == TRUE
Killed(res) == exitCode(res) = 0

\* escalation: killed = forceProc.exitCode === 0
ForceKilledMut(res) == TRUE
ForceKilled(res) == exitCode(res) = 0

\* if (proc.exitCode !== 0) { ... return false; }   (graceful request)
TermRejectedMut(res) == FALSE
TermRejected(res) == exitCode(res) # 0

\* Unix:    checkProc.exitCode === 0
\* Windows: checkProc.exitCode === 0 && checkProc.stdout.trim()
StillAliveMut(plat, res) == TRUE
StillAlive(plat, res) ==
  IF plat = "win32" THEN exitCode(res) = 0 /\ res.out
                    ELSE exitCode(res) = 0

\* the branch on the force argument: the forceful command is the first and
\* only command of a forced call
FirstStepMut(force) == "term"
FirstStep(force) == IF force THEN "force" ELSE "term"

\* invalidateProcessCache(pid): this.processInfoCache.delete(pid)
invalidateProcessCache(cache, pid) == cache \ {pid}

\* the tail of the try block: if (killed) invalidate; return killed
ReturnKilled(killed) ==
  /\ processInfoCache' = IF killed THEN invalidateProcessCache(processInfoCache, killPid)
                                   ELSE processInfoCache
  /\ killResult' = killed
  /\ killPc' = "returned"

\* the catch block: invalidate, log, return false
CatchError ==
  /\ processInfoCache' = invalidateProcessCache(processInfoCache, killPid)
  /\ killResult' = FALSE
  /\ killPc' = "returned"

\* a caller invokes killProcess(pid, force) on the adapter
KillProcess(pid, force) ==
  /\ killPc \in {"idle", "returned"}
  /\ killPid' = pid
  /\ killForce' = force
  /\ killLog' = <<>>
  /\ killResult' = FALSE
  /\ termRes' = NoRes
  /\ checkRes' = NoRes
  /\ forceRes' = NoRes
  /\ killPc' = FirstStep(force)
  /\ UNCHANGED <<platform, processInfoCache>>

\* force: kill -9 <pid> / taskkill /F /PID <pid>
KillForced(res) ==
  /\ killPc = "force"
  /\ killLog' = Append(killLog, "FORCE")
  /\ forceRes' = res
  /\ IF res.kind = "error" THEN CatchError ELSE ReturnKilled(Killed(res))
  /\ UNCHANGED <<platform, killPid, killForce, termRes, checkRes>>

\* graceful: kill -TERM <pid> / taskkill /PID <pid>
KillTerm(res) ==
  /\ killPc = "term"
  /\ killLog' = Append(killLog, "TERM")
  /\ termRes' = res
  /\ IF res.kind = "error"
       THEN CatchError
       ELSE IF TermRejected(res)
              THEN \* return false, without invalidating
                   /\ killResult' = FALSE
                   /\ killPc' = "returned"
                   /\ UNCHANGED processInfoCache
              ELSE /\ killPc' = "wait"
                   /\ UNCHANGED <<killResult, processInfoCache>>
  /\ UNCHANGED <<platform, killPid, killForce, checkRes, forceRes>>

\* await new Promise((resolve) => setTimeout(resolve, 1000))
KillWait ==
  /\ killPc = "wait"
  /\ killLog' = Append(killLog, "WAIT")
  /\ killPc' = "check"
  /\ UNCHANGED <<platform, processInfoCache, killPid, killForce, killResult,
                 termRes, checkRes, forceRes>>

\* liveness check: ps -p <pid> / tasklist /FI "PID eq <pid>" /FO CSV /NH
KillCheck(res) ==
  /\ killPc = "check"
  /\ killLog' = Append(killLog, "CHECK")
  /\ checkRes' = res
  /\ IF res.kind = "error"
       THEN CatchError
       ELSE IF StillAlive(platform, res)
              THEN /\ killPc' = "escalate"
                   /\ UNCHANGED <<killResult, processInfoCache>>
              ELSE ReturnKilled(TRUE)
  /\ UNCHANGED <<platform, killPid, killForce, termRes, forceRes>>

\* escalation: kill -9 <pid> / taskkill /F /PID <pid>
KillEscalate(res) ==
  /\ killPc = "escalate"
  /\ killLog' = Append(killLog, "FORCE")
  /\ forceRes' = res
  /\ IF res.kind = "error" THEN CatchError ELSE ReturnKilled(ForceKilled(res))
  /\ UNCHANGED <<platform, killPid, killForce, termRes, checkRes>>

\* getBatchProcessInfo(pids): every pid that misses the cache is resolved and
\* stored, this.processInfoCache.set(pid, info)
GetBatchProcessInfo(pids) ==
  /\ ~(pids \subseteq processInfoCache)
  /\ processInfoCache' = processInfoCache \cup pids
  /\ UNCHANGED <<platform, killPc, killPid, killForce, killLog, killResult,
                 termRes, checkRes, forceRes>>

(***************************************************************************)
(* ConcurrencyLimiter (runtime-utils.ts 16-47), the processLimiter behind  *)
(* spawnProcess.  A task is the fn passed to one run() call; tasks are     *)
(* numbered in the order of their run() calls.                             *)
(***************************************************************************)
Range(f) == {f[i] : i \in DOMAIN f}

\* started and not yet settled
InFlight == Range(started) \ settled

\* if (this.running < this.limit)
HasFreeSlotMut(r) == r <= limit
HasFreeSlot(r) == r < limit

\* const next = this.queue.shift()!
ShiftMut(q) == [next |-> q[Len(q)], rest |-> SubSeq(q, 1, Len(q) - 1)]
Shift(q) == [next |-> Head(q), rest |-> Tail(q)]

\* run(fn): execute() at once when a slot is free, else this.queue.push(execute)
Run ==
  /\ submitted < limit + ExtraTasks
  /\ LET t == submitted + 1 IN
       /\ submitted' = t
       /\ IF HasFreeSlot(running)
            THEN \* execute(): this.running++, then fn() is called
                 /\ running' = running + 1
                 /\ started' = Append(started, t)
                 /\ UNCHANGED <<queue, everQueued>>
            ELSE /\ queue' = Append(queue, t)
                 /\ everQueued' = everQueued \cup {t}
                 /\ UNCHANGED <<running, started>>
  /\ UNCHANGED <<settled, lastOutcome>>

\* the promise of task t settles: resolve(result) or reject(error), then the
\* finally block: this.running--, and the next queued execute() is called,
\* which does this.running++ and calls its fn()
SettleMut(t, outcome) ==
  /\ t \in InFlight
  /\ settled' = settled \cup {t}
  /\ lastOutcome' = outcome
  /\ running' = running - 1
  /\ UNCHANGED <<queue, started, submitted, everQueued>>
Settle(t, outcome) ==
  /\ t \in InFlight
  /\ settled' = settled \cup {t}
  /\ lastOutcome' = outcome
  /\ IF Len(queue) > 0
       THEN /\ queue' = Shift(queue).rest
            /\ started' = Append(started, Shift(queue).next)
            /\ running' = (running - 1) + 1
       ELSE /\ running' = running - 1
            /\ UNCHANGED <<queue, started>>
  /\ UNCHANGED <<submitted, everQueued>>

(***************************************************************************)
(* Dashboard: data.  Strings are sequences of one-character strings.       *)
(***************************************************************************)
NoPort == 0

\* what one discovery cycle can observe: three listening sockets
PortA == [port |-> 8080, pid |-> 1, processName |-> <<"n", "o", "d", "e">>,
          command |-> <<"n", "o", "d", "e", " ", "s">>]
PortB == [port |-> 3000, pid |-> 2, processName |-> <<"V", "i", "t", "e">>,
          command |-> <<"v", "i", "t", "e", " ", "8">>]
PortC == [port |-> 5432, pid |-> 3, processName |-> <<"p", "g">>,
          command |-> <<"p", "g">>]

Group(id, ports) == [id |-> id, collapsed |-> FALSE, ports |-> ports]

\* result.groups of processor.processPorts(ports) for the snapshots a cycle
\* can return: nothing listening, one group, two groups
Snapshots ==
  { <<>>,
    <<Group("dev-server", <<PortB>>)>>,
    <<Group("dev-server", <<PortB, PortA>>), Group("database", <<PortC>>)>> }

\* detector.detectPorts() resolves with a snapshot or rejects
DetectResults == [ok : {TRUE}, groups : Snapshots] \cup {[ok |-> FALSE, groups |-> <<>>]}

\* the digit keys typed in search mode
SearchDigits == {"8"}

\* the places where an asynchronous handler is suspended
PendingPlaces == {"kill.killPort", "kill.delay", "kill.refresh", "kill.catchRefresh",
                  "viewCommand", "viewLogs", "timer.refresh"}

NoCache == [valid |-> FALSE, result |-> <<>>, filter |-> <<>>, groupsHash |-> <<>>]
NoMove == [delta |-> 0, from |-> 0]

(***************************************************************************)
(* Dashboard: pure functions.                                              *)
(***************************************************************************)
DigitChar == <<"0", "1", "2", "3", "4", "5", "6", "7", "8", "9">>

\* Number.prototype.toString(): the decimal text of n >= 0
RECURSIVE toString(_)
toString(n) ==
  IF n < 10 THEN <<DigitChar[n + 1]>>
            ELSE Append(toString(n \div 10), DigitChar[(n % 10) + 1])

\* String.prototype.toLowerCase(), on the letters the snapshots and the
\* filters use
LowerChar(c) == CASE c = "V" -> "v" [] c = "I" -> "i" [] OTHER -> c
toLowerCase(str) == [i \in DOMAIN str |-> LowerChar(str[i])]

\* String.prototype.includes()
includes(str, sub) ==
  \E i \in 0..(Len(str) - Len(sub)) : SubSeq(str, i + 1, i + Len(sub)) = sub

\* the filter test of getFilteredPorts (dashboard.ts 290-299)
MatchesFilterMut(port, f) ==
  \/ f = <<>>
  \/ includes(toString(port.port), f)
  \/ includes(toLowerCase(port.processName), toLowerCase(f))
MatchesFilter(port, f) ==
  \/ f = <<>>
  \/ includes(toString(port.port), f)
  \/ includes(toLowerCase(port.processName), toLowerCase(f))
  \/ includes(toLowerCase(port.command), toLowerCase(f))

\* the rows of one group: its ports that pass the filter, with the group's id
GroupRows(g, f) ==
  LET Keep(p) == MatchesFilter(p, f)
      kept == SelectSeq(g.ports, Keep)
  IN  [i \in DOMAIN kept |-> [port |-> kept[i], group |-> g.id]]

\* the recalculation of getFilteredPorts (dashboard.ts 284-304): the rows of
\* the groups that are not collapsed, in group order
RECURSIVE Flat(_, _)
Flat(gs, f) ==
  IF gs = <<>> THEN <<>>
  ELSE (IF Head(gs).collapsed THEN <<>> ELSE GroupRows(Head(gs), f)) \o Flat(Tail(gs), f)

\* groupsHash: id, collapsed flag and port count of every group
GroupsHash(gs) == [i \in DOMAIN gs |-> <<gs[i].id, gs[i].collapsed, Len(gs[i].ports)>>]

\* the cache check of getFilteredPorts (dashboard.ts 274-281)
CacheHit(c, gs, f) == c.valid /\ c.filter = f /\ c.groupsHash = GroupsHash(gs)

\* getFilteredPorts(): its result, and the cache it leaves
getFilteredPorts(c, gs, f) == IF CacheHit(c, gs, f) THEN c.result ELSE Flat(gs, f)
CacheAfterGet(c, gs, f) ==
  IF CacheHit(c, gs, f) THEN c
  ELSE [valid |-> TRUE, result |-> Flat(gs, f), filter |-> f, groupsHash |-> GroupsHash(gs)]

\* getSelectedPort(): the row at min(selectedIndex, length - 1), NoRow for null
NoRow == [port |-> [port |-> NoPort, pid |-> 0, processName |-> <<>>, command |-> <<>>],
          group |-> ""]
getSelectedPort(c, gs, f, idx) ==
  LET flat == getFilteredPorts(c, gs, f)
  IN  IF Len(flat) = 0 THEN NoRow
      ELSE flat[(IF idx < Len(flat) - 1 THEN idx ELSE Len(flat) - 1) + 1]

\* the wrap of moveSelection (dashboard.ts 257-261)
WrapIndexMut(idx, n) == IF idx < 0 THEN 0 ELSE IF idx >= n THEN n - 1 ELSE idx
WrapIndex(idx, n) == IF idx < 0 THEN n - 1 ELSE IF idx >= n THEN 0 ELSE idx

\* moveSelection(direction): the new selectedIndex
moveSelection(c, gs, f, idx, direction) ==
  LET flat == getFilteredPorts(c, gs, f)
  IN  IF Len(flat) = 0 THEN idx ELSE WrapIndex(idx + direction, Len(flat))

\* toggleGroup(): the group of the selected row changes its collapsed flag
toggleGroup(c, gs, f, idx) ==
  LET selected == getSelectedPort(c, gs, f, idx)
      first == IF \E i \in DOMAIN gs : gs[i].id = selected.group
                 THEN CHOOSE i \in DOMAIN gs :
                        /\ gs[i].id = selected.group
                        /\ \A j \in DOMAIN gs : gs[j].id = selected.group => i <= j
                 ELSE 0
  IN  IF selected = NoRow THEN gs
      ELSE [i \in DOMAIN gs |-> IF i = first THEN [gs[i] EXCEPT !.collapsed = ~@] ELSE gs[i]]

\* isModalOpen() of the key handlers (dashboard-handlers.ts 47-57)
isModalOpen ==
  showHelp \/ showConfirm \/ showLogs \/ showCommand \/ showStats \/ searching

\* render() (dashboard.ts 551-622), as far as it changes the state modelled:
\* with a modal shown it paints the modal; otherwise it calls getFilteredPorts,
\* which fills the cache
RenderCache(c, modalShown, gs, f) == IF modalShown THEN c ELSE CacheAfterGet(c, gs, f)

\* the body of refresh() once detectPorts has settled (dashboard.ts 463-521):
\* a failure is logged and changes nothing; otherwise the groups are replaced,
\* applySorting and the final statement drop the cache, and selectedIndex is
\* pulled back into the new list
RefreshGroupsMut(res, gs) == res.groups
RefreshGroups(res, gs) == IF res.ok THEN res.groups ELSE gs
RefreshIndex(res, gs, f, idx) ==
  LET n == Len(Flat(res.groups, f))
  IN  IF res.ok /\ idx >= n THEN (IF n - 1 > 0 THEN n - 1 ELSE 0) ELSE idx
RefreshCache(res, c) == IF res.ok THEN NoCache ELSE c

PendingTotal == 
  LET RECURSIVE Sum(_)
      Sum(S) == IF S = {} THEN 0
                ELSE LET x == CHOOSE y \in S : TRUE IN pending[x] + Sum(S \ {x})
  IN  Sum(PendingPlaces)

Suspend(place) == [pending EXCEPT ![place] = @ + 1]
Resume(place) == [pending EXCEPT ![place] = @ - 1]
Move(from, to) == [pending EXCEPT ![from] = @ - 1, ![to] = @ + 1]

\* this.isRunning
isRunning == phase = "running"

(***************************************************************************)
(* Dashboard: key handlers, timer and completions.  A handler runs from a  *)
(* key event, or from the completion it awaited, to its next await or its  *)
(* end, as one step.  The handler registered for the key runs first and    *)
(* the "*" handler of dashboard.ts after it, in the same step.             *)
(***************************************************************************)
modalShown == showHelp \/ showConfirm \/ showLogs \/ showCommand \/ showStats

flags == <<showHelp, showConfirm, showLogs, showCommand, showStats, searching>>
killing == <<isKilling, killingPort>>

\* start(): the handlers are set up and the first refresh is awaited before
\* the timer and the keyboard are started
Start(res) ==
  /\ phase = "constructed"
  /\ phase' = "running"
  /\ groups' = RefreshGroups(res, groups)
  /\ selectedIndex' = RefreshIndex(res, groups, filter, selectedIndex)
  /\ filteredPortsCache' = RefreshCache(res, filteredPortsCache)
  /\ UNCHANGED <<filter, searchBuffer, flags, killing, pending, lastMove>>

\* keys "up" and "down"
KeyMove(direction) ==
  /\ isRunning
  /\ IF isModalOpen
       THEN /\ lastMove' = NoMove
            /\ UNCHANGED <<selectedIndex, filteredPortsCache>>
       ELSE /\ selectedIndex' =
                 moveSelection(filteredPortsCache, groups, filter, selectedIndex, direction)
            /\ filteredPortsCache' = CacheAfterGet(filteredPortsCache, groups, filter)
            /\ lastMove' = [delta |-> direction, from |-> selectedIndex]
  /\ UNCHANGED <<phase, groups, filter, searchBuffer, flags, killing, pending>>

\* key "/"
KeySearch ==
  /\ isRunning
  /\ IF isModalOpen
       THEN UNCHANGED <<searching, filteredPortsCache>>
       ELSE /\ searching' = TRUE
            /\ filteredPortsCache' = RenderCache(filteredPortsCache, modalShown, groups, filter)
  /\ lastMove' = NoMove
  /\ UNCHANGED <<phase, groups, selectedIndex, filter, searchBuffer, showHelp,
                 showConfirm, showLogs, showCommand, showStats, killing, pending>>

\* the longest search buffer: where the typed digits are recorded, a search
\* may add one digit to a buffer an earlier search has filled
FilterRoom == IF typed.on THEN MaxFilterLen + 1 ELSE MaxFilterLen

\* a digit key: no handler of its own here, the "*" handler appends it to the
\* search buffer while searching
KeyDigit(d) ==
  /\ isRunning
  /\ IF searching /\ Len(searchBuffer) < FilterRoom
       THEN /\ searchBuffer' = Append(searchBuffer, d)
            /\ filter' = Append(searchBuffer, d)
            /\ filteredPortsCache' = RenderCache(NoCache, modalShown, groups, filter')
       ELSE /\ ~searching
            /\ UNCHANGED <<searchBuffer, filter, filteredPortsCache>>
  /\ lastMove' = NoMove
  /\ UNCHANGED <<phase, groups, selectedIndex, flags, killing, pending>>

\* key "backspace": the "*" handler drops the last character while searching
KeyBackspace ==
  /\ isRunning
  /\ IF searching
       THEN /\ searchBuffer' = SubSeq(searchBuffer, 1, Len(searchBuffer) - 1)
            /\ filter' = searchBuffer'
            /\ filteredPortsCache' = RenderCache(NoCache, modalShown, groups, filter')
       ELSE UNCHANGED <<searchBuffer, filter, filteredPortsCache>>
  /\ lastMove' = NoMove
  /\ UNCHANGED <<phase, groups, selectedIndex, flags, killing, pending>>

\* key "?": no isModalOpen test
KeyHelp ==
  /\ isRunning
  /\ showHelp' = ~showHelp
  /\ filteredPortsCache' =
       RenderCache(filteredPortsCache,
                   showHelp' \/ showConfirm \/ showLogs \/ showCommand \/ showStats,
                   groups, filter)
  /\ lastMove' = NoMove
  /\ UNCHANGED <<phase, groups, selectedIndex, filter, searchBuffer, showConfirm,
                 showLogs, showCommand, showStats, searching, killing, pending>>

\* key "s": the two imports are of modules that are loaded already, so the
\* handler runs to its end without another event in between
KeyStats ==
  /\ isRunning
  /\ IF isModalOpen /\ ~showStats
       THEN UNCHANGED <<showStats, filteredPortsCache>>
       ELSE /\ showStats' = ~showStats
            /\ filteredPortsCache' =
                 RenderCache(filteredPortsCache,
                             showHelp \/ showConfirm \/ showLogs \/ showCommand \/ showStats',
                             groups, filter)
  /\ lastMove' = NoMove
  /\ UNCHANGED <<phase, groups, selectedIndex, filter, searchBuffer, showHelp,
                 showConfirm, showLogs, showCommand, searching, killing, pending>>

\* key "escape": closes the first that is open of search, help, confirm,
\* logs, command, stats
KeyEscape ==
  /\ isRunning
  /\ IF searching
       THEN /\ searching' = FALSE
            /\ filter' = <<>>
            /\ filteredPortsCache' = RenderCache(NoCache, modalShown, groups, <<>>)
            /\ UNCHANGED <<showHelp, showConfirm, showLogs, showCommand, showStats>>
       ELSE /\ showHelp' = FALSE
            /\ showConfirm' = (showConfirm /\ showHelp)
            /\ showLogs' = (showLogs /\ (showHelp \/ showConfirm))
            /\ showCommand' = (showCommand /\ (showHelp \/ showConfirm \/ showLogs))
            /\ showStats' = (showStats /\ (showHelp \/ showConfirm \/ showLogs \/ showCommand))
            /\ filteredPortsCache' =
                 IF modalShown
                   THEN RenderCache(filteredPortsCache,
                                    showHelp' \/ showConfirm' \/ showLogs' \/ showCommand'
                                      \/ showStats',
                                    groups, filter)
                   ELSE filteredPortsCache
            /\ UNCHANGED <<searching, filter>>
  /\ lastMove' = NoMove
  /\ UNCHANGED <<phase, groups, selectedIndex, searchBuffer, killing, pending>>

\* key "enter": ends the search keeping the filter; showConfirm is never set
\* with a confirmAction, so the second branch has nothing to run
KeyEnter ==
  /\ isRunning
  /\ IF searching
       THEN /\ searching' = FALSE
            /\ filteredPortsCache' = RenderCache(NoCache, modalShown, groups, filter)
       ELSE UNCHANGED <<searching, filteredPortsCache>>
  /\ lastMove' = NoMove
  /\ UNCHANGED <<phase, groups, selectedIndex, filter, searchBuffer, showHelp,
                 showConfirm, showLogs, showCommand, showStats, killing, pending>>

\* key "g"
KeyToggleGroup ==
  /\ isRunning
  /\ IF isModalOpen
       THEN UNCHANGED <<groups, filteredPortsCache>>
       ELSE /\ groups' = toggleGroup(filteredPortsCache, groups, filter, selectedIndex)
            /\ filteredPortsCache' = RenderCache(NoCache, modalShown, groups', filter)
  /\ lastMove' = NoMove
  /\ UNCHANGED <<phase, selectedIndex, filter, searchBuffer, flags, killing, pending>>

\* key "c": handleCopy reads the selected row and leaves the state alone
KeyCopy ==
  /\ isRunning
  /\ filteredPortsCache' =
       IF isModalOpen THEN filteredPortsCache
       ELSE CacheAfterGet(filteredPortsCache, groups, filter)
  /\ lastMove' = NoMove
  /\ UNCHANGED <<phase, groups, selectedIndex, filter, searchBuffer, flags, killing,
                 pending>>

\* key "v": handleViewCommand sets showCommand and awaits getProcessCommand
KeyViewCommand ==
  /\ isRunning
  /\ LET selected == getSelectedPort(filteredPortsCache, groups, filter, selectedIndex)
     IN  IF isModalOpen
           THEN UNCHANGED <<showCommand, filteredPortsCache, pending>>
           ELSE /\ filteredPortsCache' = CacheAfterGet(filteredPortsCache, groups, filter)
                /\ IF selected = NoRow
                     THEN UNCHANGED <<showCommand, pending>>
                     ELSE /\ PendingTotal < MaxPending
                          /\ showCommand' = TRUE
                          /\ pending' = Suspend("viewCommand")
  /\ lastMove' = NoMove
  /\ UNCHANGED <<phase, groups, selectedIndex, filter, searchBuffer, showHelp,
                 showConfirm, showLogs, showStats, searching, killing>>

\* getProcessCommand has settled: commandContent is set, then render()
ViewCommandDone ==
  /\ isRunning /\ pending["viewCommand"] > 0
  /\ pending' = Resume("viewCommand")
  /\ filteredPortsCache' = RenderCache(filteredPortsCache, modalShown, groups, filter)
  /\ lastMove' = NoMove
  /\ UNCHANGED <<phase, groups, selectedIndex, filter, searchBuffer, flags, killing>>

\* key "l": handleViewLogs awaits viewPortLogs
KeyViewLogs ==
  /\ isRunning
  /\ LET selected == getSelectedPort(filteredPortsCache, groups, filter, selectedIndex)
     IN  IF isModalOpen
           THEN UNCHANGED <<filteredPortsCache, pending>>
           ELSE /\ filteredPortsCache' = CacheAfterGet(filteredPortsCache, groups, filter)
                /\ IF selected = NoRow
                     THEN UNCHANGED pending
                     ELSE /\ PendingTotal < MaxPending
                          /\ pending' = Suspend("viewLogs")
  /\ lastMove' = NoMove
  /\ UNCHANGED <<phase, groups, selectedIndex, filter, searchBuffer, flags, killing>>

\* viewPortLogs has resolved: showLogs is set, then render()
ViewLogsDone ==
  /\ isRunning /\ pending["viewLogs"] > 0
  /\ pending' = Resume("viewLogs")
  /\ showLogs' = TRUE
  /\ lastMove' = NoMove
  /\ UNCHANGED <<phase, groups, selectedIndex, filter, searchBuffer, showHelp,
                 showConfirm, showCommand, showStats, searching, killing,
                 filteredPortsCache>>

\* a tick of the refresh timer: refresh() is called and awaits detectPorts
TimerTickMut ==
  /\ isRunning /\ ~isModalOpen
  /\ PendingTotal < MaxPending
  /\ pending' = Suspend("timer.refresh")
  /\ lastMove' = NoMove
  /\ UNCHANGED <<phase, groups, selectedIndex, filter, searchBuffer, flags, killing,
                 filteredPortsCache>>
TimerTick ==
  /\ isRunning
  /\ PendingTotal < MaxPending
  /\ pending' = Suspend("timer.refresh")
  /\ lastMove' = NoMove
  /\ UNCHANGED <<phase, groups, selectedIndex, filter, searchBuffer, flags, killing,
                 filteredPortsCache>>

\* the refresh of a timer tick has its result: refresh body, then render()
TimerRefreshDone(res) ==
  /\ isRunning /\ pending["timer.refresh"] > 0
  /\ pending' = Resume("timer.refresh")
  /\ groups' = RefreshGroups(res, groups)
  /\ selectedIndex' = RefreshIndex(res, groups, filter, selectedIndex)
  /\ filteredPortsCache' =
       RenderCache(RefreshCache(res, filteredPortsCache), modalShown, groups', filter)
  /\ lastMove' = NoMove
  /\ UNCHANGED <<phase, filter, searchBuffer, flags, killing>>

(***************************************************************************)
(* Dashboard: handleKill (dashboard-handlers.ts 273-356).  killPort cannot *)
(* reject: process-utils.killProcess catches whatever the adapter throws.  *)
(* A render() or one of the calls made between two awaits can throw; that  *)
(* is an input of the step in which it would happen.                       *)
(***************************************************************************)

\* the finally block: the loading state is cleared, then render()
ClearKilling ==
  /\ isKilling' = FALSE
  /\ killingPort' = NoPort

\* key "k": the loading state is set and painted, then killPort is awaited;
\* the first render() is made before the try block is entered
KeyKill(renderThrows) ==
  /\ isRunning
  /\ LET selected == getSelectedPort(filteredPortsCache, groups, filter, selectedIndex)
     IN  IF isModalOpen
           THEN /\ ~renderThrows
                /\ UNCHANGED <<killing, filteredPortsCache, pending>>
           ELSE IF selected = NoRow
                  THEN /\ ~renderThrows
                       /\ filteredPortsCache' = CacheAfterGet(filteredPortsCache, groups, filter)
                       /\ UNCHANGED <<killing, pending>>
                  ELSE /\ isKilling' = TRUE
                       /\ killingPort' = selected.port.port
                       /\ filteredPortsCache' = CacheAfterGet(filteredPortsCache, groups, filter)
                       /\ IF renderThrows
                            THEN \* the handler's promise rejects here
                                 UNCHANGED pending
                            ELSE /\ PendingTotal < MaxPending
                                 /\ pending' = Suspend("kill.killPort")
  /\ lastMove' = NoMove
  /\ UNCHANGED <<phase, groups, selectedIndex, filter, searchBuffer, flags>>

\* killPort has resolved (with true or false, which only chooses the toast):
\* the toast is set and painted, the caches are cleared and the 200 ms delay
\* is awaited; when the statistics calls or the render() throw, the catch
\* block clears the caches and awaits refresh()
KillPortDone(throws) ==
  /\ isRunning /\ pending["kill.killPort"] > 0
  /\ pending' = Move("kill.killPort", IF throws THEN "kill.catchRefresh" ELSE "kill.delay")
  /\ filteredPortsCache' = NoCache
  /\ lastMove' = NoMove
  /\ UNCHANGED <<phase, groups, selectedIndex, filter, searchBuffer, flags, killing>>

\* the 200 ms delay is over: refresh() is called and awaits detectPorts
KillDelayDone ==
  /\ isRunning /\ pending["kill.delay"] > 0
  /\ pending' = Move("kill.delay", "kill.refresh")
  /\ lastMove' = NoMove
  /\ UNCHANGED <<phase, groups, selectedIndex, filter, searchBuffer, flags, killing,
                 filteredPortsCache>>

\* the refresh of the try block has its result: refresh body, then render().
\* If that render() throws, the catch block clears the cache and awaits
\* refresh(); otherwise the finally block ends the handler
KillRefreshDone(res, renderThrows) ==
  /\ isRunning /\ pending["kill.refresh"] > 0
  /\ groups' = RefreshGroups(res, groups)
  /\ selectedIndex' = RefreshIndex(res, groups, filter, selectedIndex)
  /\ IF renderThrows
       THEN /\ pending' = Move("kill.refresh", "kill.catchRefresh")
            /\ filteredPortsCache' = NoCache
            /\ UNCHANGED killing
       ELSE /\ pending' = Resume("kill.refresh")
            /\ filteredPortsCache' =
                 RenderCache(RefreshCache(res, filteredPortsCache), modalShown, groups', filter)
            /\ ClearKilling
  /\ lastMove' = NoMove
  /\ UNCHANGED <<phase, filter, searchBuffer, flags>>

\* the refresh of the catch block has its result: refresh body, render(),
\* then the finally block, whether or not that render() throws
KillCatchRefreshDone(res) ==
  /\ isRunning /\ pending["kill.catchRefresh"] > 0
  /\ pending' = Resume("kill.catchRefresh")
  /\ groups' = RefreshGroups(res, groups)
  /\ selectedIndex' = RefreshIndex(res, groups, filter, selectedIndex)
  /\ filteredPortsCache' =
       RenderCache(RefreshCache(res, filteredPortsCache), modalShown, groups', filter)
  /\ ClearKilling
  /\ lastMove' = NoMove
  /\ UNCHANGED <<phase, filter, searchBuffer, flags>>

InitDashVars ==
  /\ phase = "constructed"
  /\ groups = <<>>
  /\ selectedIndex = 0
  /\ filter = <<>>
  /\ searchBuffer = <<>>
  /\ showHelp = FALSE
  /\ showConfirm = FALSE
  /\ showLogs = FALSE
  /\ showCommand = FALSE
  /\ showStats = FALSE
  /\ searching = FALSE
  /\ isKilling = FALSE
  /\ killingPort = NoPort
  /\ filteredPortsCache = NoCache
  /\ pending = [p \in PendingPlaces |-> 0]
  /\ lastMove = NoMove

(***************************************************************************)
(* Adapters: detectPorts() and the parsers of the listing tools.           *)
(*   unix-adapter.ts 24-116 (lsof), windows-adapter.ts 25-124 (netstat)    *)
(* A line of the tool's output is the sequence of its whitespace-separated *)
(* fields (line.trim().split(/\s+/)); a field is a string, that is a       *)
(* sequence of one-character strings.  Blank lines are dropped by the      *)
(* filter at the head of both parsers and are not part of a listing.       *)
(***************************************************************************)
\* the value of parseInt and of isNaN-tested numbers when no digit is read
NaN == -1

IsDigit(c) == \E i \in 1..10 : DigitChar[i] = c
DigitValue(c) == (CHOOSE i \in 1..10 : DigitChar[i] = c) - 1

\* the longest prefix of str made of decimal digits
LeadingDigits(str) ==
  LET n == CHOOSE k \in 0..Len(str) :
             /\ \A i \in 1..k : IsDigit(str[i])
             /\ (k = Len(str) \/ ~IsDigit(str[k + 1]))
  IN  SubSeq(str, 1, n)

RECURSIVE DigitsValue(_)
DigitsValue(ds) ==
  IF ds = <<>> THEN 0
  ELSE DigitsValue(SubSeq(ds, 1, Len(ds) - 1)) * 10 + DigitValue(ds[Len(ds)])

\* parseInt(str, 10) of a text without sign or leading blanks
parseInt(str) == IF LeadingDigits(str) = <<>> THEN NaN ELSE DigitsValue(LeadingDigits(str))

\* String.prototype.startsWith()
startsWith(str, prefix) == Len(str) >= Len(prefix) /\ SubSeq(str, 1, Len(prefix)) = prefix

\* String.prototype.toUpperCase(), on the letters the protocol column uses
UpperChar(c) ==
  CASE c = "t" -> "T" [] c = "c" -> "C" [] c = "p" -> "P"
    [] c = "u" -> "U" [] c = "d" -> "D" [] OTHER -> c
toUpperCase(str) == [i \in DOMAIN str |-> UpperChar(str[i])]

\* parts.slice(8).join(" ")
RECURSIVE Join(_)
Join(parts) ==
  IF parts = <<>> THEN <<>>
  ELSE IF Len(parts) = 1 THEN parts[1]
  ELSE parts[1] \o <<" ">> \o Join(Tail(parts))

\* the words the parsers compare fields with
Word ==
  [ TCP |-> <<"T", "C", "P">>,
    UDP |-> <<"U", "D", "P">>,
    LISTENING |-> <<"L", "I", "S", "T", "E", "N", "I", "N", "G">>,
    ESTABLISHED |-> <<"E", "S", "T", "A", "B", "L", "I", "S", "H", "E", "D">>,
    Active |-> <<"A", "c", "t", "i", "v", "e">>,
    Proto |-> <<"P", "r", "o", "t", "o">>,
    COMMAND |-> <<"C", "O", "M", "M", "A", "N", "D">>,
    IPv4 |-> <<"I", "P", "v", "4">>,
    IPv6 |-> <<"I", "P", "v", "6">>,
    LISTEN |-> <<"(", "L", "I", "S", "T", "E", "N", ")">> ]

\* the PortInfo fields the parsers read from a line
PortInfo(port, pid, protocol) == [port |-> port, pid |-> pid, protocol |-> protocol]

\* ---- Windows: parseNetstatOutput (windows-adapter.ts 70-124) ----

\* localAddr.match(/:(\d+)$/): the digits captured, <<>> when there is no match
AddrMatch(localAddr) ==
  LET Colon(k) == /\ localAddr[k] = ":"
                  /\ \A i \in (k + 1)..Len(localAddr) : IsDigit(localAddr[i])
  IN  IF \E k \in 1..(Len(localAddr) - 1) : Colon(k)
        THEN SubSeq(localAddr, (CHOOSE k \in 1..(Len(localAddr) - 1) : Colon(k)) + 1,
                    Len(localAddr))
        ELSE <<>>

\* the header test: line.startsWith("Active") || line.startsWith("Proto")
\*                  || line.startsWith("  Proto")
NetstatHeader(parts) == startsWith(parts[1], Word.Active) \/ startsWith(parts[1], Word.Proto)

\* the state test: parts[parts.length - 1] !== "LISTENING"
NotListening(parts) == parts[Len(parts)] # Word.LISTENING

\* the pid of a row: parseInt(parts[parts.length - 1], 10)
NetstatPid(parts) == parseInt(parts[Len(parts)])

\* one pass of the loop over the lines: the PortInfo pushed, if any
NetstatRow(parts) ==
  IF NetstatHeader(parts) THEN <<>>
  ELSE IF Len(parts) < 5 THEN <<>>
  ELSE IF toUpperCase(parts[1]) # Word.TCP /\ toUpperCase(parts[1]) # Word.UDP THEN <<>>
  ELSE IF NotListening(parts) THEN <<>>
  ELSE IF AddrMatch(parts[2]) = <<>> THEN <<>>
  ELSE IF parseInt(AddrMatch(parts[2])) = NaN \/ NetstatPid(parts) = NaN THEN <<>>
  ELSE <<PortInfo(parseInt(AddrMatch(parts[2])), NetstatPid(parts),
                  toUpperCase(parts[1]))>>

\* const key = `${port.port}-${port.pid}`
DedupKey(p) == toString(p.port) \o <<"-">> \o toString(p.pid)

\* "Deduplicate by port+pid": the first PortInfo of every key, in order
RECURSIVE Dedup(_, _)
Dedup(ports, seen) ==
  IF ports = <<>> THEN <<>>
  ELSE IF DedupKey(Head(ports)) \in seen THEN Dedup(Tail(ports), seen)
  ELSE <<Head(ports)>> \o Dedup(Tail(ports), seen \cup {DedupKey(Head(ports))})

RECURSIVE NetstatRows(_)
NetstatRows(lines) ==
  IF lines = <<>> THEN <<>> ELSE NetstatRow(Head(lines)) \o NetstatRows(Tail(lines))

parseNetstatOutput(lines) == Dedup(NetstatRows(lines), {})

\* ---- Unix: parseLsofOutput (unix-adapter.ts 52-116) ----

\* \w and '.', over the characters the listings use
IsNameChar(c) ==
  c \notin {" ", ":", "*", "(", ")", "[", "]", "-", ">", "/", ","}

\* name.match(/(\*|[\w.]+):(\d+)/): the digits captured by the leftmost
\* match, <<>> when there is no match.  The match ends its first group at a
\* ':' that follows '*' or a name character and precedes a digit.
NameMatch(name) ==
  LET Colon(k) == /\ name[k] = ":"
                  /\ (name[k - 1] = "*" \/ IsNameChar(name[k - 1]))
                  /\ IsDigit(name[k + 1])
      Ks == {k \in 2..(Len(name) - 1) : Colon(k)}
  IN  IF Ks = {} THEN <<>>
      ELSE LeadingDigits(SubSeq(name, (CHOOSE k \in Ks : \A j \in Ks : k <= j) + 1,
                                Len(name)))

\* one pass of the loop over the lines: the PortInfo pushed, if any
LsofRow(parts) ==
  IF startsWith(parts[1], Word.COMMAND) THEN <<>>
  ELSE IF Len(parts) < 9 THEN <<>>
  ELSE LET name == Join(SubSeq(parts, 9, Len(parts)))
       IN  IF parts[5] # Word.IPv4 /\ parts[5] # Word.IPv6 THEN <<>>
           ELSE IF ~includes(name, Word.LISTEN) THEN <<>>
           ELSE IF NameMatch(name) = <<>> THEN <<>>
           ELSE <<PortInfo(parseInt(NameMatch(name)), parseInt(parts[2]),
                           IF includes(name, Word.UDP) THEN Word.UDP ELSE Word.TCP)>>

RECURSIVE LsofRows(_)
LsofRows(lines) ==
  IF lines = <<>> THEN <<>> ELSE LsofRow(Head(lines)) \o LsofRows(Tail(lines))

\* parseLsofOutput: the PortInfo list; the batch process info merged in at the
\* end keeps every entry and its port and pid
parseLsofOutput(lines) == LsofRows(lines)

\* ---- the listings the tools can print ----
\* fields of the lines below: local and foreign addresses, pids, NAME parts
Field ==
  [ Addr4 |-> <<"0", ".", "0", ".", "0", ".", "0", ":", "8", "0">>,
    Addr6 |-> <<"[", ":", ":", "]", ":", "8", "0">>,
    Addr9 |-> <<"1", "2", "7", ".", "0", ".", "0", ".", "1", ":", "9", "0">>,
    Foreign |-> <<"0", ".", "0", ".", "0", ".", "0", ":", "0">>,
    Any |-> <<"*", ":", "*">>,
    Pid12 |-> <<"1", "2">>,
    Pid7 |-> <<"7">>,
    Star80 |-> <<"*", ":", "8", "0">>,
    Loop6 |-> <<"[", ":", ":", "1", "]", ":", "8", "0">>,
    Link6 |-> <<"[", "f", "e", "8", "0", ":", ":", "1", ":", "2", "]", ":", "8", "0">>,
    Conn |-> <<"1", "2", "7", ".", "0", ".", "0", ".", "1", ":", "9", "0", "-", ">", "1", "2", "7", ".", "0", ".", "0", ".", "1", ":", "5">> ]

NetstatLines ==
  { <<Word.TCP, Field.Addr4, Field.Foreign, Word.LISTENING, Field.Pid12>>,
    <<Word.TCP, Field.Addr6, Field.Foreign, Word.LISTENING, Field.Pid12>>,
    <<Word.TCP, Field.Addr9, Field.Foreign, Word.LISTENING, Field.Pid7>>,
    <<Word.TCP, Field.Addr9, Field.Addr4, Word.ESTABLISHED, Field.Pid7>>,
    <<Word.UDP, Field.Addr4, Field.Any, Field.Pid12>>,
    <<Word.Proto, <<"L">>, <<"F">>, <<"S">>, <<"P", "I", "D">>>>,
    <<Word.TCP, Field.Addr4, Field.Foreign, Field.Pid12, Word.LISTENING>> }


LsofLine(cmd, pid, type, nameParts) ==
  <<cmd, pid, <<"b", "o", "b">>, <<"3", "u">>, type, <<"0", "x">>, <<"0", "t", "0">>, Word.TCP>>
    \o nameParts

LsofLines ==
  { LsofLine(<<"n", "o", "d", "e">>, Field.Pid12, Word.IPv4, <<Field.Star80, Word.LISTEN>>),
    LsofLine(<<"n", "o", "d", "e">>, Field.Pid12, Word.IPv6, <<Field.Star80, Word.LISTEN>>),
    LsofLine(<<"p", "g">>, Field.Pid7, Word.IPv4, <<Field.Addr9, Word.LISTEN>>),
    LsofLine(<<"p", "g">>, Field.Pid7, Word.IPv6, <<Field.Loop6, Word.LISTEN>>),
    LsofLine(<<"n", "o", "d", "e">>, Field.Pid12, Word.IPv6, <<Field.Link6, Word.LISTEN>>),
    LsofLine(<<"p", "g">>, Field.Pid7, Word.IPv4, <<Field.Conn, <<"(", "E", ")">>>>),
    LsofLine(<<"p", "g">>, Field.Pid7, <<"D", "I", "R">>, <<<<"/">>>>),
    <<Word.COMMAND, <<"P", "I", "D">>, <<"U">>, <<"F", "D">>, <<"T">>, <<"D">>, <<"S">>,
      <<"N">>, <<"N", "A", "M", "E">>>> }

\* the outputs of one run of the tool: up to MaxLines lines
Listings(lines) == UNION {[1..n -> lines] : n \in 0..MaxLines}

\* detectPorts(): the tool is run; a rejected spawn or a non-zero exit code
\* throws, otherwise the listing is parsed
DetectPorts(res) ==
  /\ parsePc = "start"
  /\ IF res.kind = "error" \/ exitCode(res) # 0
       THEN /\ parsePc' = "threw"
            /\ detected' = <<>>
       ELSE /\ parsePc' = "returned"
            /\ detected' = IF platform = "win32" THEN parseNetstatOutput(listing)
                                                 ELSE parseLsofOutput(listing)
  /\ UNCHANGED listing

InitParseVars ==
  /\ listing = <<>>
  /\ detected = <<>>
  /\ parsePc = "start"

(***************************************************************************)
(* Dashboard.refresh() in full (dashboard.ts 462-522): besides the groups, *)
(* the selected index and the cache, which the dashboard steps above       *)
(* change, it assigns state.ports and state.lastUpdate.  RefreshRest is    *)
(* that part of the body; it goes with every step that runs the body.      *)
(***************************************************************************)
\* result.ports of processor.processPorts: the ports of the cycle
RECURSIVE ResultPorts(_)
ResultPorts(gs) == IF gs = <<>> THEN <<>> ELSE Head(gs).ports \o ResultPorts(Tail(gs))

\* this.state.ports = result.ports, skipped when detectPorts threw
RefreshPorts(res, ports) == IF res.ok THEN ResultPorts(res.groups) ELSE ports

\* this.state.lastUpdate = result.timestamp, skipped when detectPorts threw;
\* the timestamps of successive cycles are 1, 2, ...
RefreshStamp(res, stamp) == IF res.ok THEN stamp + 1 ELSE stamp

NoRefresh == [kind |-> "none", groups |-> <<>>, selectedIndex |-> 0, ports |-> <<>>,
              lastUpdate |-> 0]

\* the rest of the refresh body, and the record of what the body started from
RefreshRest(res) ==
  /\ res.ok => lastUpdate < MaxCycles
  /\ statePorts' = RefreshPorts(res, statePorts)
  /\ lastUpdate' = RefreshStamp(res, lastUpdate)
  /\ lastRefresh' = [kind |-> IF res.ok THEN "ok" ELSE "failed",
                     groups |-> groups, selectedIndex |-> selectedIndex,
                     ports |-> statePorts, lastUpdate |-> lastUpdate]

\* a step that does not run the refresh body
RefreshIdle ==
  /\ lastRefresh' = NoRefresh
  /\ UNCHANGED <<statePorts, lastUpdate>>

InitRefreshVars ==
  /\ statePorts = <<>>
  /\ lastUpdate = 0
  /\ lastRefresh = NoRefresh

(***************************************************************************)
(* Dashboard.render() and renderDelta() (dashboard.ts 551-702): which path *)
(* a frame takes and what it repaints.  The view is what render() reads:   *)
(* the rows getFilteredPorts() returns, the selection, filter, sort key    *)
(* and detail flag, whether one of the five modal flags is set, the toast  *)
(* (killMessage: "none", "live", or "expired" when Date.now() is past      *)
(* killMessageExpiresAt) and the terminal height.                          *)
(***************************************************************************)
Row(pid, lifetime) ==
  [port |-> 3000 + pid, pid |-> pid, processName |-> "node", command |-> "node s",
   lifetime |-> lifetime, type |-> "dev-server"]

\* the lists a frame can show; between two cycles the lifetime of a process
\* grows, and a process can be replaced by another one
RowLists ==
  { <<>>,
    <<Row(1, 10)>>,
    <<Row(1, 10), Row(2, 10), Row(3, 10)>>,
    <<Row(1, 12), Row(2, 10), Row(3, 10)>>,
    <<Row(1, 12), Row(2, 12), Row(4, 12)>> }

Frames ==
  [valid : {TRUE}, filteredPorts : RowLists, selectedIndex : 0..2,
   filter : {"", "8"}, sortBy : {"port", "pid"}, showDetails : BOOLEAN]

\* previousRenderState = null
NoFrame == [valid |-> FALSE, filteredPorts |-> <<>>, selectedIndex |-> 0,
            filter |-> "", sortBy |-> "port", showDetails |-> FALSE]

Views ==
  [rows : RowLists, selectedIndex : 0..2, filter : {"", "8"}, sortBy : {"port", "pid"},
   showDetails : BOOLEAN, modal : BOOLEAN, killMessage : {"none", "live", "expired"},
   height : {7, 10}]

\* const currentState = {filteredPorts, selectedIndex, filter, sortBy, showDetails}
CurrentState(v) ==
  [valid |-> TRUE, filteredPorts |-> v.rows, selectedIndex |-> v.selectedIndex,
   filter |-> v.filter, sortBy |-> v.sortBy, showDetails |-> v.showDetails]

\* the expiry check: a message past its expiry time is cleared
KillMessageAfterExpiryMut(v) == v.killMessage
KillMessageAfterExpiry(v) == IF v.killMessage = "expired" THEN "none" ELSE v.killMessage

\* const canUseDelta = ...
CanUseDeltaMut(prev, cur, hasKillMessage) ==
  /\ ~hasKillMessage
  /\ prev.valid
  /\ Len(prev.filteredPorts) = Len(cur.filteredPorts)
  /\ prev.filter = cur.filter
  /\ prev.showDetails = cur.showDetails
CanUseDelta(prev, cur, hasKillMessage) ==
  /\ ~hasKillMessage
  /\ prev.valid
  /\ Len(prev.filteredPorts) = Len(cur.filteredPorts)
  /\ prev.filter = cur.filter
  /\ prev.sortBy = cur.sortBy
  /\ prev.showDetails = cur.showDetails

\* const maxHeight = height - (this.state.showDetails ? 6 : 4)
maxHeight(height, details) == height - (IF details THEN 6 ELSE 4)

\* the comparison of the rows at one index
RowDiffers(prev, curr) ==
  \/ prev.pid # curr.pid
  \/ prev.port # curr.port
  \/ prev.processName # curr.processName
  \/ prev.command # curr.command
  \/ prev.lifetime # curr.lifetime
  \/ prev.type # curr.type

\* changedLines of renderDelta
ChangedLines(prev, cur, mh) ==
  LET minLength == IF Len(prev.filteredPorts) < Len(cur.filteredPorts)
                     THEN Len(prev.filteredPorts) ELSE Len(cur.filteredPorts)
  IN  (IF prev.selectedIndex # cur.selectedIndex
         THEN {prev.selectedIndex + 2, cur.selectedIndex + 2} ELSE {})
      \cup {i + 2 : i \in {k \in 0..(minLength - 1) :
                             /\ k + 2 < mh
                             /\ RowDiffers(prev.filteredPorts[k + 1],
                                           cur.filteredPorts[k + 1])}}

\* if (changedLines.size > maxHeight / 2)
TooManyChanges(changed, mh) == 2 * Cardinality(changed) > mh

\* the port lines "Render changed port lines" paints
DeltaRowsMut(changed, cur, mh) == {l \in 2..(mh - 1) : l - 2 < Len(cur.filteredPorts)}
DeltaRows(changed, cur, mh) ==
  {l \in changed : l >= 2 /\ l < mh /\ l - 2 < Len(cur.filteredPorts)}

\* the port lines renderMain paints
MainRows(cur, mh) == {y \in 2..(mh - 1) : y - 2 < Len(cur.filteredPorts)}

\* the detail section is painted when showDetails is set and a row is selected
DetailsPainted(cur) == cur.showDetails /\ Len(cur.filteredPorts) > 0

\* what one call of render() paints: "modal" and "full" clear the screen
\* and redraw it, "delta" repaints the header and the lines in rows
Painted(v, prev) ==
  LET cur == CurrentState(v)
      mh == maxHeight(v.height, v.showDetails)
      changed == ChangedLines(prev, cur, mh)
      full == [path |-> "full", rows |-> MainRows(cur, mh), header |-> TRUE,
               details |-> DetailsPainted(cur)]
  IN  IF v.modal
        THEN [path |-> "modal", rows |-> {}, header |-> FALSE, details |-> FALSE]
      ELSE IF ~CanUseDelta(prev, cur, KillMessageAfterExpiry(v) # "none") THEN full
      ELSE IF TooManyChanges(changed, mh) THEN full
      ELSE [path |-> "delta", rows |-> DeltaRows(changed, cur, mh), header |-> TRUE,
            details |-> DetailsPainted(cur)]

\* renderMain and renderDelta end with renderKillMessage() when a message is
\* set; the modal views do not paint it
ToastPainted(modal, killMessage) == ~modal /\ killMessage # "none"

NotPainted == [path |-> "none", rows |-> {}, header |-> FALSE, details |-> FALSE]

\* render(): the frame is painted and remembered; a modal frame resets the
\* delta state
Render ==
  /\ renderPc = "start"
  /\ renderPc' = "done"
  /\ painted' = Painted(view, previousRenderState)
  /\ previousRenderState' = IF view.modal THEN NoFrame ELSE CurrentState(view)
  /\ view' = [view EXCEPT !.killMessage =
                IF view.modal THEN @ ELSE KillMessageAfterExpiry(view)]
  /\ toastBefore' = view.killMessage
  /\ toastPainted' = ToastPainted(view.modal, view'.killMessage)
  /\ UNCHANGED frameBefore

InitRenderVars ==
  /\ view = [rows |-> <<>>, selectedIndex |-> 0, filter |-> "", sortBy |-> "port",
             showDetails |-> FALSE, modal |-> FALSE, killMessage |-> "none",
             height |-> 10]
  /\ previousRenderState = NoFrame
  /\ frameBefore = NoFrame
  /\ toastBefore = "none"
  /\ toastPainted = FALSE
  /\ painted = NotPainted
  /\ renderPc = "start"

(***************************************************************************)
(* killPortByNumber(port, force)  (windows-adapter.ts 607-671, the         *)
(* port-actions part of the file).  detectPorts() gives the snapshot; the  *)
(* entries of the port are killed one after the other, each with an await  *)
(* of killProcess, which resolves to true or false and never rejects       *)
(* (process-utils.ts 6-13).  A message is its template and the numbers     *)
(* put in it.                                                              *)
(***************************************************************************)
\* the entries a snapshot can hold: two processes on port 80, one on port 90
SnapshotEntries == {[port |-> 80, pid |-> 1], [port |-> 80, pid |-> 2],
                    [port |-> 90, pid |-> 3]}

\* the port numbers asked for: bound twice, bound once, not bound
AskedPorts == {80, 90, 70}

NoReturn == [success |-> FALSE, killed |-> <<>>,
             message |-> [template |-> "", port |-> 0, killed |-> 0, failed |-> 0]]

\* const matchingPorts = ports.filter((p) => p.port === port)
MatchingPorts(ports, port) == LET Match(p) == p.port = port IN SelectSeq(ports, Match)

\* the return statements after the loop
SuccessMut(killed, failed) == Len(killed) > 0 /\ Len(failed) = 0
Success(killed, failed) == Len(killed) > 0
KillReturn(port, killed, failed) ==
  IF Len(killed) = 0
    THEN [success |-> FALSE, killed |-> <<>>,
          message |-> [template |-> "Failed to kill processes on port", port |-> port,
                       killed |-> 0, failed |-> 0]]
  ELSE IF Len(failed) > 0
    THEN [success |-> Success(killed, failed), killed |-> killed,
          message |-> [template |-> "Killed N process(es) on port P, but M failed",
                       port |-> port, killed |-> Len(killed), failed |-> Len(failed)]]
  ELSE [success |-> Success(killed, failed), killed |-> killed,
        message |-> [template |-> "Successfully killed N process(es) on port",
                     port |-> port, killed |-> Len(killed), failed |-> 0]]

\* the call: detector.detectPorts() is awaited
KillPortByNumber(port, force) ==
  /\ kpPc = "idle"
  /\ kpPc' = "detecting"
  /\ kpPort' = port
  /\ kpForce' = force
  /\ UNCHANGED <<kpSnapshot, kpMatching, kpKilled, kpFailed, kpCalls, kpResults, kpReturn>>

\* detectPorts() has settled: a rejection goes to the catch block; with no
\* entry on the port the call returns; otherwise the first kill is awaited
KpDetected(ok) ==
  /\ kpPc = "detecting"
  /\ LET matching == MatchingPorts(kpSnapshot, kpPort)
     IN  IF ~ok
           THEN /\ kpPc' = "returned"
                /\ kpReturn' = [success |-> FALSE, killed |-> <<>>,
                                message |-> [template |-> "Error killing port",
                                             port |-> kpPort, killed |-> 0, failed |-> 0]]
                /\ UNCHANGED <<kpMatching, kpCalls>>
         ELSE IF Len(matching) = 0
           THEN /\ kpPc' = "returned"
                /\ kpReturn' = [success |-> FALSE, killed |-> <<>>,
                                message |-> [template |-> "No process found using port",
                                             port |-> kpPort, killed |-> 0, failed |-> 0]]
                /\ kpMatching' = matching
                /\ UNCHANGED kpCalls
         ELSE /\ kpPc' = "killing"
              /\ kpMatching' = matching
              /\ kpCalls' = <<[pid |-> matching[1].pid, force |-> kpForce]>>
              /\ UNCHANGED kpReturn
  /\ UNCHANGED <<kpSnapshot, kpPort, kpForce, kpKilled, kpFailed, kpResults>>

\* killProcess has resolved for the entry the loop is at: the entry goes to
\* killed or to failed; the next entry is killed, or the call returns
KpKilled(result) ==
  /\ kpPc = "killing"
  /\ LET portInfo == kpMatching[Len(kpCalls)]
         killed == IF result THEN Append(kpKilled, portInfo) ELSE kpKilled
         failed == IF result THEN kpFailed ELSE Append(kpFailed, portInfo)
     IN  /\ kpResults' = Append(kpResults, result)
         /\ kpKilled' = killed
         /\ kpFailed' = failed
         /\ IF Len(kpCalls) < Len(kpMatching)
              THEN /\ kpCalls' = Append(kpCalls,
                                        [pid |-> kpMatching[Len(kpCalls) + 1].pid,
                                         force |-> kpForce])
                   /\ UNCHANGED <<kpPc, kpReturn>>
              ELSE /\ kpPc' = "returned"
                   /\ kpReturn' = KillReturn(kpPort, killed, failed)
                   /\ UNCHANGED kpCalls
  /\ UNCHANGED <<kpSnapshot, kpPort, kpForce, kpMatching>>

InitKillPortVars ==
  /\ kpSnapshot = <<>>
  /\ kpPort = 0
  /\ kpForce = FALSE
  /\ kpPc = "idle"
  /\ kpMatching = <<>>
  /\ kpKilled = <<>>
  /\ kpFailed = <<>>
  /\ kpCalls = <<>>
  /\ kpResults = <<>>
  /\ kpReturn = NoReturn

(***************************************************************************)
(* Process metadata cache: new CacheManager<ProcessInfo>(30000, 1000)      *)
(* (unix-adapter.ts 20, windows-adapter.ts 21).  cache-manager.ts is not   *)
(* among the sources; get, set, delete and cleanup follow section 4.2 of   *)
(* the specification: an entry expires ttl after its insertion, and an     *)
(* insertion that would exceed the capacity evicts the oldest entry.  The  *)
(* cache is the sequence of its entries in insertion order.                *)
(***************************************************************************)
\* new CacheManager<ProcessInfo>(30000, 1000): time-to-live in ms, capacity
ttl == 30000
maxSize == 1000

\* the clock advances in steps of half the time-to-live
TickMs == ttl \div 2

\* the pids set and deleted one by one, the pids of one large batch, the entries
CachePids == {1}
BatchPids == 1001..(1000 + maxSize)
CacheValues == {"a", "b"}
ProbedPids == CachePids \cup {1001}

NoEntry == [pid |-> 0, value |-> "", insertedAt |-> 0]
NoGet == [pid |-> 0, hit |-> FALSE, value |-> ""]
NoOp == [op |-> "none", value |-> "", at |-> 0, evicted |-> FALSE]

\* an entry is expired once ttl has elapsed since its insertion
ExpiredMut(entry, t) == FALSE
Expired(entry, t) == t - entry.insertedAt >= ttl

\* the entry of pid, NoEntry when there is none
EntryOf(c, pid) ==
  IF \E i \in DOMAIN c : c[i].pid = pid
    THEN c[CHOOSE i \in DOMAIN c : c[i].pid = pid]
    ELSE NoEntry

\* get(pid): the entry if present and unexpired, else a miss
CacheLookup(c, pid, t) ==
  LET e == EntryOf(c, pid)
  IN  IF e # NoEntry /\ ~Expired(e, t)
        THEN [pid |-> pid, hit |-> TRUE, value |-> e.value]
        ELSE [pid |-> pid, hit |-> FALSE, value |-> ""]

\* delete(pid)
Without(c, pid) == LET Keep(e) == e.pid # pid IN SelectSeq(c, Keep)

\* cleanup(): the expired entries are swept
Swept(c, t) == LET Keep(e) == ~Expired(e, t) IN SelectSeq(c, Keep)

\* the entry an insertion at capacity evicts: the oldest one, the first of
\* them in insertion order
Oldest(c) ==
  CHOOSE i \in DOMAIN c :
    /\ \A j \in DOMAIN c : c[i].insertedAt <= c[j].insertedAt
    /\ \A j \in DOMAIN c : c[j].insertedAt = c[i].insertedAt => i <= j

\* set(pid, entry): inserts or overwrites and records the insertion time; a
\* new key in a full cache evicts first
RoomFor(c, pid) ==
  IF EntryOf(c, pid) = NoEntry /\ Len(c) >= maxSize
    THEN Without(c, c[Oldest(c)].pid)
    ELSE Without(c, pid)
Put(c, pid, value, t) ==
  Append(RoomFor(c, pid), [pid |-> pid, value |-> value, insertedAt |-> t])

\* the loop of getBatchProcessInfo over the pids that missed: set for each of
\* the pids from..to in turn.  The range is split in halves and the test on
\* Len(left), always true, has the first half evaluated before the second:
\* both only keep the evaluation shallow.
RECURSIVE PutAll(_, _, _, _)
PutAll(c, from, to, t) ==
  IF from > to THEN c
  ELSE IF from = to THEN Put(c, from, "f", t)
  ELSE LET mid == (from + to) \div 2
           left == PutAll(c, from, mid, t)
       IN  IF Len(left) >= 0 THEN PutAll(left, mid + 1, to, t) ELSE left

\* history: the last operation on each probed pid, and whether its entry was
\* evicted since; after is the cache the operation leaves
Note(pid, op, value, after) ==
  [p \in ProbedPids |->
     IF p = pid THEN [op |-> op, value |-> value, at |-> cmNow, evicted |-> FALSE]
     ELSE IF EntryOf(cmEntries, p) # NoEntry /\ EntryOf(after, p) = NoEntry
       THEN [cmLastOp[p] EXCEPT !.evicted = TRUE]
     ELSE cmLastOp[p]]

CacheSet(pid, value) ==
  /\ cmEntries' = Put(cmEntries, pid, value, cmNow)
  /\ cmLastOp' = Note(pid, "set", value, cmEntries')
  /\ cmGot' = NoGet
  /\ UNCHANGED cmNow

\* a batch resolution of maxSize pids none of which is cached
CacheSetBatch ==
  /\ \A i \in DOMAIN cmEntries : cmEntries[i].pid \notin BatchPids
  /\ cmEntries' = PutAll(cmEntries, 1001, 1000 + maxSize, cmNow)
  /\ cmLastOp' = Note(1001, "set", "f", cmEntries')
  /\ cmGot' = NoGet
  /\ UNCHANGED cmNow

CacheGet(pid) ==
  /\ cmGot' = CacheLookup(cmEntries, pid, cmNow)
  /\ UNCHANGED <<cmEntries, cmNow, cmLastOp>>

CacheDelete(pid) ==
  /\ cmEntries' = Without(cmEntries, pid)
  /\ cmLastOp' = Note(pid, "delete", "", cmEntries')
  /\ cmGot' = NoGet
  /\ UNCHANGED cmNow

CacheCleanup ==
  /\ cmEntries' = Swept(cmEntries, cmNow)
  /\ cmGot' = NoGet
  /\ UNCHANGED <<cmNow, cmLastOp>>

CacheTick ==
  /\ cmNow < MaxTicks * TickMs
  /\ cmNow' = cmNow + TickMs
  /\ cmGot' = NoGet
  /\ UNCHANGED <<cmEntries, cmLastOp>>

InitCacheVars ==
  /\ cmEntries = <<>>
  /\ cmNow = 0
  /\ cmLastOp = [p \in ProbedPids |-> NoOp]
  /\ cmGot = NoGet

(***************************************************************************)
(* parseEtime (unix-adapter.ts 280-307).  The etime column of ps is the    *)
(* elapsed time of the process written as [[dd-]hh:]mm:ss; the string      *)
(* handed to parseEtime is one of the writings of an elapsed time.         *)
(***************************************************************************)
\* number | undefined
undefined == [known |-> FALSE, seconds |-> 0]
Lifetime(n) == [known |-> TRUE, seconds |-> n]

\* etimeStr.split(/[:-]/): the pieces between the separators
IsSeparator(c) == c = ":" \/ c = "-"
RECURSIVE split(_)
split(str) ==
  IF \E i \in DOMAIN str : IsSeparator(str[i])
    THEN LET k == CHOOSE i \in DOMAIN str :
                    IsSeparator(str[i]) /\ \A j \in 1..(i - 1) : ~IsSeparator(str[j])
         IN  <<SubSeq(str, 1, k - 1)>> \o split(SubSeq(str, k + 1, Len(str)))
    ELSE <<str>>

\* parseInt(part, 10) || 0
IntOrZero(part) == IF parseInt(part) = NaN THEN 0 ELSE parseInt(part)

\* days * 86400 + hours * 3600 + minutes * 60 + seconds
TotalSecondsMut(days, hours, minutes, seconds) ==
  days * 86400 + hours * 60 + minutes * 60 + seconds
TotalSeconds(days, hours, minutes, seconds) ==
  days * 86400 + hours * 3600 + minutes * 60 + seconds

parseEtime(etimeStr) ==
  IF etimeStr = <<>> THEN undefined
  ELSE LET parts == split(etimeStr)
           totalSeconds ==
             IF Len(parts) = 4
               THEN TotalSeconds(IntOrZero(parts[1]), IntOrZero(parts[2]),
                                 IntOrZero(parts[3]), IntOrZero(parts[4]))
             ELSE IF Len(parts) = 3
               THEN TotalSeconds(0, IntOrZero(parts[1]), IntOrZero(parts[2]),
                                 IntOrZero(parts[3]))
             ELSE IF Len(parts) = 2
               THEN TotalSeconds(0, 0, IntOrZero(parts[1]), IntOrZero(parts[2]))
             ELSE 0
       IN  IF totalSeconds > 0 THEN Lifetime(totalSeconds) ELSE undefined

\* the elapsed times written, and the ways ps and the claim write them: with
\* all four fields, without the days, or as minutes and seconds only; days
\* and hours with two digits or as they are
Elapsed ==
  [days : {0, 2, 12}, hours : {0, 1, 3, 23}, minutes : {0, 2, 4, 5, 59},
   seconds : {0, 3, 5, 6, 59}]
EtimeForms == {"dd-hh:mm:ss", "hh:mm:ss", "mm:ss"}

TwoDigits(n) == IF n < 10 THEN <<"0">> \o toString(n) ELSE toString(n)
Head2(n, padded) == IF padded THEN TwoDigits(n) ELSE toString(n)

Etime(e, form, padded) ==
  CASE form = "dd-hh:mm:ss" ->
         Head2(e.days, padded) \o <<"-">> \o TwoDigits(e.hours) \o <<":">>
           \o TwoDigits(e.minutes) \o <<":">> \o TwoDigits(e.seconds)
    [] form = "hh:mm:ss" ->
         Head2(e.hours, padded) \o <<":">> \o TwoDigits(e.minutes) \o <<":">>
           \o TwoDigits(e.seconds)
    [] form = "mm:ss" ->
         Head2(e.minutes, padded) \o <<":">> \o TwoDigits(e.seconds)

\* a form leaves out only fields that are zero
FormFits(e, form) ==
  /\ form = "hh:mm:ss" => e.days = 0
  /\ form = "mm:ss" => e.days = 0 /\ e.hours = 0

\* this.parseEtime(etimeStr)
ParseEtime ==
  /\ etPc = "start"
  /\ etResult' = parseEtime(etStr)
  /\ etPc' = "done"
  /\ UNCHANGED <<etElapsed, etStr>>

InitEtimeVars ==
  /\ etElapsed = [days |-> 0, hours |-> 0, minutes |-> 0, seconds |-> 0]
  /\ etStr = <<>>
  /\ etResult = undefined
  /\ etPc = "start"

(***************************************************************************)
(* KeyboardHandler (keyboard.ts): the handler registry and the "data"      *)
(* listener installed by start().  An event is the key name parseKey gives *)
(* for the bytes read; a handler is known by the key it is registered for. *)
(* stdin is a terminal, and start() is called once, as the dashboard does. *)
(***************************************************************************)
\* the key names of the events, and the names handlers are registered for
Keys == {"ctrl+c", "up", "1", "*"}
HandlerKeys == Keys

\* the chunks of bytes stdin delivers, as character codes: ctrl+c, the
\* arrow up sequence, "1", "*", backspace (\b) and ctrl+a
ByteSequences == {<<3>>, <<27, 91, 65>>, <<49>>, <<42>>, <<8>>, <<1>>}

\* String.fromCharCode(code + 96) for the control codes 1..26
CtrlKey ==
  <<"ctrl+a", "ctrl+b", "ctrl+c", "ctrl+d", "ctrl+e", "ctrl+f", "ctrl+g", "ctrl+h",
    "ctrl+i", "ctrl+j", "ctrl+k", "ctrl+l", "ctrl+m", "ctrl+n", "ctrl+o", "ctrl+p",
    "ctrl+q", "ctrl+r", "ctrl+s", "ctrl+t", "ctrl+u", "ctrl+v", "ctrl+w", "ctrl+x",
    "ctrl+y", "ctrl+z">>

\* the text of a chunk that is no special key: the characters themselves
Literal(sequence) ==
  CASE sequence = <<49>> -> "1"
    [] sequence = <<42>> -> "*"
    [] OTHER -> "other"

\* parseKey(sequence)
parseKey(sequence) ==
  CASE sequence = <<3>> -> "ctrl+c"
    [] sequence = <<27>> -> "escape"
    [] sequence = <<127>> \/ sequence = <<8>> -> "backspace"
    [] sequence = <<13>> \/ sequence = <<10>> -> "enter"
    [] sequence = <<9>> -> "tab"
    [] sequence = <<32>> -> "space"
    [] sequence = <<27, 91, 65>> -> "up"
    [] sequence = <<27, 91, 66>> -> "down"
    [] sequence = <<27, 91, 67>> -> "right"
    [] sequence = <<27, 91, 68>> -> "left"
    [] sequence = <<27, 79, 80>> -> "f1"
    [] sequence = <<27, 79, 81>> -> "f2"
    [] sequence = <<27, 79, 82>> -> "f3"
    [] sequence = <<27, 79, 83>> -> "f4"
    [] OTHER -> IF Len(sequence) = 1 /\ sequence[1] >= 1 /\ sequence[1] <= 26
                  THEN CtrlKey[sequence[1]]
                  ELSE Literal(sequence)

\* how a call of a handler ends: it returns undefined, true, false, a
\* promise that resolves or a promise that rejects, or it throws
Outcomes == {"void", "true", "false", "promise", "rejects", "throws"}

NoEvent == "none"

\* if (key === "ctrl+c"): the listener ends the process itself
TerminatesMut(key) == FALSE
Terminates(key) == key = "ctrl+c"

\* else if (result === false) return: a promise is never false
PreventsDefaultMut(outcome) == FALSE
PreventsDefault(outcome) == outcome = "false"

\* the call of the handler registered for name, if any
Call(name, key, outcome) ==
  IF name \in kbHandlers
    THEN <<[handler |-> name, key |-> key, outcome |-> outcome]>>
    ELSE <<>>

\* the listener stops after the exact handler: it returned false, or it
\* threw and the exception leaves the listener
StopsAfterExact(key, outcome) ==
  key \in kbHandlers /\ (PreventsDefault(outcome) \/ outcome = "throws")

\* a rejection is caught by the catch() the listener attaches; an exception
\* thrown by a handler is caught by nothing
LeavesListenerMut(calls) == FALSE
LeavesListener(calls) == \E i \in DOMAIN calls : calls[i].outcome = "throws"

\* the process is there: no exit, no uncaught exception
KbAlive == ~kbExited /\ ~kbCrashed

\* on(key, handler)
On(key) ==
  /\ KbAlive
  /\ kbHandlers' = kbHandlers \cup {key}
  /\ kbEvent' = NoEvent /\ kbCalls' = <<>>
  /\ UNCHANGED <<kbRawMode, kbListening, kbExited, kbCrashed>>

\* off(key)
Off(key) ==
  /\ KbAlive
  /\ kbHandlers' = kbHandlers \ {key}
  /\ kbEvent' = NoEvent /\ kbCalls' = <<>>
  /\ UNCHANGED <<kbRawMode, kbListening, kbExited, kbCrashed>>

\* start(): enableRawMode() and the listener
KbStart ==
  /\ KbAlive /\ ~kbListening
  /\ kbRawMode' = TRUE
  /\ kbListening' = TRUE
  /\ kbEvent' = NoEvent /\ kbCalls' = <<>>
  /\ UNCHANGED <<kbHandlers, kbExited, kbCrashed>>

\* stop(): disableRawMode() and removeAllListeners("data")
KbStop ==
  /\ KbAlive
  /\ kbRawMode' = FALSE
  /\ kbListening' = FALSE
  /\ kbEvent' = NoEvent /\ kbCalls' = <<>>
  /\ UNCHANGED <<kbHandlers, kbExited, kbCrashed>>

\* the "data" listener, for one chunk; exact and generic are the outcomes of
\* the two handler calls when they are made
KeyData(sequence, exact, generic) ==
  LET key == parseKey(sequence)
      calls == Call(key, key, exact)
                 \o (IF StopsAfterExact(key, exact) THEN <<>>
                     ELSE Call("*", key, generic))
  IN  /\ KbAlive /\ kbListening
      /\ kbEvent' = key
      /\ IF Terminates(key)
           THEN /\ kbRawMode' = FALSE
                /\ kbExited' = TRUE
                /\ kbCalls' = <<>>
                /\ UNCHANGED kbCrashed
           ELSE /\ kbCalls' = calls
                /\ kbCrashed' = LeavesListener(calls)
                /\ UNCHANGED <<kbRawMode, kbExited>>
      /\ UNCHANGED <<kbHandlers, kbListening>>

InitKeyboardVars ==
  /\ kbHandlers = {}
  /\ kbRawMode = FALSE
  /\ kbListening = FALSE
  /\ kbExited = FALSE
  /\ kbCrashed = FALSE
  /\ kbEvent = NoEvent
  /\ kbCalls = <<>>

(***************************************************************************)
(* Search mode: the record of what was typed since "/" entered it, kept    *)
(* beside the dashboard steps.  cancelled tells that escape has left a     *)
(* search mode and no search was committed with enter since.               *)
(***************************************************************************)
NotTyped == [on |-> FALSE, digits |-> <<>>, cancelled |-> FALSE]

\* "/" outside any modal and search mode starts an empty input
TypedSearch ==
  typed' = IF isModalOpen THEN typed ELSE [typed EXCEPT !.digits = <<>>]

\* a digit typed while searching
TypedDigit(d) ==
  typed' = IF searching THEN [typed EXCEPT !.digits = Append(@, d)] ELSE typed

\* backspace while searching takes the last typed digit back
TypedBackspace ==
  typed' = IF searching /\ typed.digits # <<>>
             THEN [typed EXCEPT !.digits = SubSeq(@, 1, Len(@) - 1)]
             ELSE typed

\* escape while searching cancels the search
TypedEscape ==
  typed' = IF searching THEN [typed EXCEPT !.digits = <<>>, !.cancelled = TRUE] ELSE typed

\* enter while searching commits it
TypedEnter ==
  typed' = IF searching THEN [typed EXCEPT !.cancelled = FALSE] ELSE typed

InitSearchVars == typed = NotTyped

(***************************************************************************)
(* getFilteredPorts (dashboard.ts 259-312) on its own: one call with no    *)
(* cached result, on the groups of a snapshot with any of them collapsed   *)
(* and a filter of digits, letters of either case or blanks.               *)
(***************************************************************************)
\* state.filter: empty, digits as typed in search mode, text as given by the
\* --filter option
Filters ==
  { <<>>, <<"8">>, <<"3", "0">>, <<"0", "8">>, <<"v">>, <<"V">>, <<"V", "I">>,
    <<"e", " ">>, <<"p", "g">>, <<"x">> }

\* the groups of a snapshot, each one collapsed or not
Collapsings(gs) ==
  { [i \in DOMAIN gs |-> [gs[i] EXCEPT !.collapsed = closed[i]]] :
      closed \in [DOMAIN gs -> BOOLEAN] }

\* this.getFilteredPorts() with this.filteredPortsCache = null
GetFilteredPorts ==
  /\ fpPc = "start"
  /\ fpResult' = getFilteredPorts(NoCache, fpGroups, fpFilter)
  /\ fpPc' = "done"
  /\ UNCHANGED <<fpGroups, fpFilter>>

InitFilterVars ==
  /\ fpGroups = <<>>
  /\ fpFilter = <<>>
  /\ fpResult = <<>>
  /\ fpPc = "start"

(***************************************************************************)
(* handleKill (dashboard-handlers.ts 273-356) statement by statement, with *)
(* a log of what it does.  render(), and the statistics calls made after a *)
(* successful kill, can throw.  killPort never rejects: the adapter's      *)
(* killProcess throwing is turned into false by process-utils.killProcess. *)
(***************************************************************************)
KillablePorts == {80, 3000}
KillOutcomes == {"true", "false", "throws"}

\* PortDetector.clearCache() and detectPorts() on the detector's memoized
\* snapshot: a cleared detector runs the discovery, another one may reuse
\* what it holds
clearDetectorCache(memo) == FALSE
DetectEvent(memo) == IF memo THEN "memoized snapshot" ELSE "discovery"

\* lines 339-340 and 347-348: both caches are cleared
InvalidatedMut == <<"filtered cache cleared">>
Invalidated == <<"filtered cache cleared", "detector cache cleared">>

\* key "k" with no modal open: lines 274-286
HandleKill(renderThrows) ==
  /\ hkPc = "idle"
  /\ IF hkSelected = NoPort
       THEN /\ ~renderThrows
            /\ hkPc' = "done"
            /\ UNCHANGED <<hkKilling, hkThrown, hkLog>>
       ELSE /\ hkKilling' = TRUE
            /\ hkThrown' = renderThrows
            /\ hkLog' = hkLog \o <<"killing set">>
                          \o (IF renderThrows THEN <<>> ELSE <<"repaint">>)
            /\ hkPc' = IF renderThrows THEN "rejected" ELSE "killPort"
  /\ UNCHANGED <<hkSelected, hkMemo, hkOutcome, hkShown>>

\* killPort has resolved: lines 287-343, or the catch block 345-349 when the
\* statistics calls or the render() of the toast throw
KillPortSettled(outcome, statsThrow, renderThrows) ==
  /\ hkPc = "killPort"
  /\ statsThrow => outcome = "true"
  /\ hkOutcome' = outcome
  /\ hkMemo' = clearDetectorCache(hkMemo)
  /\ IF statsThrow
       THEN /\ hkLog' = hkLog \o <<"kill attempt">> \o Invalidated
            /\ hkPc' = "catchRefresh"
            /\ hkThrown' = TRUE
       ELSE IF renderThrows
              THEN /\ hkLog' = hkLog \o <<"kill attempt", "toast set">> \o Invalidated
                   /\ hkPc' = "catchRefresh"
                   /\ hkThrown' = TRUE
              ELSE /\ hkLog' = hkLog \o <<"kill attempt", "toast set", "repaint">>
                                 \o Invalidated
                   /\ hkPc' = "delay"
                   /\ UNCHANGED hkThrown
  /\ UNCHANGED <<hkSelected, hkKilling, hkShown>>

\* line 343: the 200 ms are over, refresh() awaits detectPorts
HkDelayDone ==
  /\ hkPc = "delay"
  /\ hkLog' = hkLog \o <<"delay">>
  /\ hkPc' = "refresh"
  /\ UNCHANGED <<hkSelected, hkKilling, hkMemo, hkThrown, hkOutcome, hkShown>>

\* the finally block, 350-355: its render() is the last statement
Finally == <<"killing cleared", "repaint">>

\* lines 346-347: refresh() of the try block is over (a failed discovery is
\* logged by refresh and changes nothing), then render(); when it
\* throws the catch block clears the caches and awaits refresh() again
HkRefreshDone(ok, renderThrows) ==
  /\ hkPc = "refresh"
  /\ hkShown' = IF ok THEN "new" ELSE hkShown
  /\ IF renderThrows
       THEN /\ hkLog' = hkLog \o <<DetectEvent(hkMemo)>> \o Invalidated
            /\ hkMemo' = clearDetectorCache(TRUE)
            /\ hkThrown' = TRUE
            /\ hkPc' = "catchRefresh"
            /\ UNCHANGED hkKilling
       ELSE /\ hkLog' = hkLog \o <<DetectEvent(hkMemo), "repaint">> \o Finally
            /\ hkMemo' = TRUE
            /\ hkKilling' = FALSE
            /\ hkPc' = "done"
            /\ UNCHANGED hkThrown
  /\ UNCHANGED <<hkSelected, hkOutcome>>

\* lines 349-355: refresh() of the catch block is over, render(), then the
\* finally block whether or not that render() throws
HkCatchRefreshDone(ok, renderThrows) ==
  /\ hkPc = "catchRefresh"
  /\ hkShown' = IF ok THEN "new" ELSE hkShown
  /\ hkLog' = hkLog \o <<DetectEvent(hkMemo)>>
                \o (IF renderThrows THEN <<>> ELSE <<"repaint">>) \o Finally
  /\ hkMemo' = TRUE
  /\ hkKilling' = FALSE
  /\ hkPc' = "done"
  /\ UNCHANGED <<hkSelected, hkThrown, hkOutcome>>

InitHandleKillVars ==
  /\ hkPc = "idle"
  /\ hkSelected = NoPort
  /\ hkKilling = FALSE
  /\ hkMemo = FALSE
  /\ hkThrown = FALSE
  /\ hkOutcome = "none"
  /\ hkLog = <<>>
  /\ hkShown = "old"

(***************************************************************************)
(* Adapter instances (platform-factory.ts 12-21).  Every call of           *)
(* getPlatformAdapter constructs an adapter, and every adapter constructs  *)
(* its own processInfoCache (unix-adapter.ts 20, windows-adapter.ts 21).   *)
(* Instance 1 is the one the dashboard's Port Detector wraps.              *)
(***************************************************************************)
\* getPlatformAdapter is called at most MaxAdapters - 1 times
MaxAdapters == 3
DetectorAdapter == 1

\* getPlatformAdapter(): a new adapter, with an empty cache
getPlatformAdapter(caches) == Append(caches, {})

\* the instance a call of getPlatformAdapter has just returned
Newest(caches) == Len(caches)

\* a process starts listening
PaListen(pid) ==
  /\ pid \notin paListening
  /\ paListening' = paListening \cup {pid}
  /\ UNCHANGED <<paCaches, paKilled>>

\* detector.detectPorts(): the wrapped adapter resolves the metadata of the
\* listening pids and stores what it fetched in its cache
PaDetectPorts ==
  /\ paCaches' = [paCaches EXCEPT ![DetectorAdapter] = @ \cup paListening]
  /\ paKilled' = {}
  /\ UNCHANGED paListening

\* the time-to-live of the detector adapter's entries passes
PaExpire ==
  /\ paCaches[DetectorAdapter] # {}
  /\ paCaches' = [paCaches EXCEPT ![DetectorAdapter] = {}]
  /\ UNCHANGED <<paListening, paKilled>>

\* process-utils.killProcess(pid) as handleKill calls it through killPort:
\* getPlatformAdapter(), then killProcess on the adapter it returned, which
\* invalidates pid in its own cache when the kill succeeded or threw
PaKillProcess(pid, outcome) ==
  /\ pid \in paListening
  /\ Len(paCaches) < MaxAdapters
  /\ LET made == getPlatformAdapter(paCaches)
         platformAdapter == Newest(made)
     IN  paCaches' = IF outcome = "false" THEN made
                     ELSE [made EXCEPT ![platformAdapter] = invalidateProcessCache(@, pid)]
  /\ paListening' = IF outcome = "true" THEN paListening \ {pid} ELSE paListening
  /\ paKilled' = paKilled \cup {pid}

InitAdapterVars ==
  /\ paCaches = <<{}>>
  /\ paListening = {}
  /\ paKilled = {}

(***************************************************************************)
(* Sorting (dashboard.ts 229-246) and the keys "d", "1", "2", "3"          *)
(* (dashboard-handlers.ts 129-170).                                        *)
(***************************************************************************)
SortKeys == {"1", "2", "3"}
SortOf(key) == CASE key = "1" -> "port" [] key = "2" -> "process" [] key = "3" -> "pid"

\* the characters of the model in the order localeCompare gives them; letters
\* of either case have the same place
Collation == <<" ", "8", "d", "e", "g", "i", "n", "o", "p", "s", "t", "v">>
CharRank(c) == CHOOSE i \in DOMAIN Collation : Collation[i] = LowerChar(c)

\* a.localeCompare(b) < 0
RECURSIVE LocaleBefore(_, _)
LocaleBefore(a, b) ==
  IF b = <<>> THEN FALSE
  ELSE IF a = <<>> THEN TRUE
  ELSE IF CharRank(Head(a)) # CharRank(Head(b)) THEN CharRank(Head(a)) < CharRank(Head(b))
  ELSE LocaleBefore(Tail(a), Tail(b))

\* the comparator of applySorting returns a negative number
ComesBefore(a, b, key) ==
  CASE key = "port" -> a.port < b.port
    [] key = "process" -> LocaleBefore(a.processName, b.processName)
    [] key = "pid" -> a.pid < b.pid
    [] OTHER -> FALSE

\* Array.prototype.sort is stable: x goes before the first element it comes
\* before
RECURSIVE InsertSorted(_, _, _)
InsertSorted(sorted, x, key) ==
  IF sorted = <<>> THEN <<x>>
  ELSE IF ComesBefore(x, Head(sorted), key) THEN <<x>> \o sorted
  ELSE <<Head(sorted)>> \o InsertSorted(Tail(sorted), x, key)

RECURSIVE SortPorts(_, _)
SortPorts(ports, key) ==
  IF ports = <<>> THEN <<>>
  ELSE InsertSorted(SortPorts(SubSeq(ports, 1, Len(ports) - 1), key), ports[Len(ports)], key)

\* applySorting(): group.ports.sort(...) for every group
applySorting(gs, key) == [i \in DOMAIN gs |-> [gs[i] EXCEPT !.ports = SortPorts(@, key)]]

\* key "d"
KeyDetailsMut ==
  /\ isRunning
  /\ showDetails' = ~showDetails
  /\ filteredPortsCache' = RenderCache(filteredPortsCache, modalShown, groups, filter)
  /\ lastMove' = NoMove
  /\ UNCHANGED <<phase, groups, selectedIndex, filter, searchBuffer, flags, killing,
                 pending, sortBy>>
KeyDetails ==
  /\ isRunning
  /\ IF isModalOpen
       THEN UNCHANGED <<showDetails, filteredPortsCache>>
       ELSE /\ showDetails' = ~showDetails
            /\ filteredPortsCache' =
                 RenderCache(filteredPortsCache, modalShown, groups, filter)
  /\ lastMove' = NoMove
  /\ UNCHANGED <<phase, groups, selectedIndex, filter, searchBuffer, flags, killing,
                 pending, sortBy>>

\* keys "1", "2", "3": the handler of the key, then the "*" handler, which in
\* search mode takes the key as a digit of the port searched for
KeySort(key) ==
  IF isModalOpen
    THEN KeyDigit(key) /\ UNCHANGED <<sortBy, showDetails>>
    ELSE /\ isRunning
         /\ sortBy' = SortOf(key)
         /\ groups' = applySorting(groups, sortBy')
         /\ filteredPortsCache' = RenderCache(NoCache, modalShown, groups', filter)
         /\ lastMove' = NoMove
         /\ UNCHANGED <<phase, selectedIndex, filter, searchBuffer, flags, killing,
                        pending, showDetails>>

\* what a step handled while isModalOpen() held: a "navigation" key, one of
\* them that is also a "digit", or "none" for any other step
Keyed(kind) == keyed' = IF isModalOpen THEN kind ELSE "none"

InitKeysVars ==
  /\ sortBy = "port"
  /\ showDetails = TRUE
  /\ keyed = "none"

(***************************************************************************)
(* The order of the ports after refresh() (dashboard.ts 487-509) and after *)
(* a sort key (dashboard-handlers.ts 139-170).  No --type, --user or       *)
(* --process option is given.                                              *)
(***************************************************************************)
SortOptions == {"port", "process", "pid", "user"}

Owned(p, user) ==
  [port |-> p.port, pid |-> p.pid, processName |-> p.processName, command |-> p.command,
   user |-> user]
OwnedA == Owned(PortA, <<"o", "p", "s">>)
OwnedB == Owned(PortB, <<"d", "e", "v">>)
OwnedC == Owned(PortC, <<"d", "e", "v">>)

\* result.groups of a discovery: the processor's order of the ports within a
\* group is any order
SortSnapshots ==
  { <<>>,
    <<Group("dev-server", <<OwnedA, OwnedB, OwnedC>>)>>,
    <<Group("dev-server", <<OwnedC, OwnedA, OwnedB>>)>>,
    <<Group("dev-server", <<OwnedB, OwnedA>>), Group("database", <<OwnedC>>)>>,
    <<Group("dev-server", <<OwnedC, OwnedB>>), Group("system", <<OwnedA>>)>> }

\* the comparator of lines 492-505 returns a negative number
CliComesBefore(a, b, sortOption) ==
  CASE sortOption = "port" -> a.port < b.port
    [] sortOption = "process" -> LocaleBefore(a.processName, b.processName)
    [] sortOption = "pid" -> a.pid < b.pid
    [] sortOption = "user" -> LocaleBefore(a.user, b.user)
    [] OTHER -> a.port < b.port

RECURSIVE CliInsertSorted(_, _, _)
CliInsertSorted(sorted, x, sortOption) ==
  IF sorted = <<>> THEN <<x>>
  ELSE IF CliComesBefore(x, Head(sorted), sortOption) THEN <<x>> \o sorted
  ELSE <<Head(sorted)>> \o CliInsertSorted(Tail(sorted), x, sortOption)

RECURSIVE CliSortPorts(_, _)
CliSortPorts(ports, sortOption) ==
  IF ports = <<>> THEN <<>>
  ELSE CliInsertSorted(CliSortPorts(SubSeq(ports, 1, Len(ports) - 1), sortOption),
                       ports[Len(ports)], sortOption)

\* lines 487-509: with a CLI sort option the groups are sorted by it, otherwise
\* applySorting() sorts them by state.sortBy
SortedOnRefresh(gs, cliSort, key) ==
  IF cliSort # "none"
    THEN [i \in DOMAIN gs |-> [gs[i] EXCEPT !.ports = CliSortPorts(@, cliSort)]]
    ELSE applySorting(gs, key)

\* refresh() with a discovery that succeeds
SrRefresh(gs) ==
  /\ srGroups' = SortedOnRefresh(gs, srCliSort, srSortBy)
  /\ srLast' = "refresh"
  /\ UNCHANGED <<srSortBy, srCliSort>>

\* keys "1", "2", "3" with no modal open
SrKeySort(key) ==
  /\ srSortBy' = SortOf(key)
  /\ srGroups' = applySorting(srGroups, srSortBy')
  /\ srLast' = "sort"
  /\ UNCHANGED srCliSort

InitSortVars ==
  /\ srGroups = <<>>
  /\ srSortBy = "port"
  /\ srCliSort = "none"
  /\ srLast = "none"

(***************************************************************************)
(* getBatchProcessInfo (unix-adapter.ts 121-161, windows-adapter.ts        *)
(* 130-171) on the cache of its adapter, with a log of the cache calls     *)
(* that change it and of the external commands.                            *)
(***************************************************************************)
Dimensions == {"command", "cwd", "lifetime"}

Event(kind, tool, dims, pids) == [kind |-> kind, tool |-> tool, dims |-> dims, pids |-> pids]

\* the commands of one pass for the pids that missed: ps and lsof (unix
\* 166-178, 241-251), three wmic queries (windows 176-198, 248-268, 306-326),
\* each with the whole list of pids
BatchCommands(os, pids) ==
  IF os = "win32"
    THEN << Event("command", "wmic CommandLine", {"command"}, pids),
            Event("command", "wmic ExecutablePath", {"cwd"}, pids),
            Event("command", "wmic CreationDate", {"lifetime"}, pids) >>
    ELSE << Event("command", "ps", {"command", "lifetime"}, pids),
            Event("command", "lsof", {"cwd"}, pids) >>

\* the loop over pids: those for which processInfoCache.get(pid) is a miss
UncachedMut(c, pids, t) == pids
Uncached(c, pids, t) == {pid \in pids : ~CacheLookup(c, pid, t).hit}

\* the loop over uncachedPids: processInfoCache.set(pid, info) for each
RECURSIVE SetEach(_, _, _)
SetEach(c, pids, t) ==
  IF pids = {} THEN c
  ELSE LET pid == CHOOSE p \in pids : \A q \in pids : p <= q
       IN  SetEach(Put(c, pid, "f", t), pids \ {pid}, t)

RECURSIVE SetEvents(_)
SetEvents(pids) ==
  IF pids = {} THEN <<>>
  ELSE LET pid == CHOOSE p \in pids : \A q \in pids : p <= q
       IN  <<Event("set", "", {}, {pid})>> \o SetEvents(pids \ {pid})

\* getBatchProcessInfo(pids) up to its return or to the await of the commands
BatchCalled(pids) ==
  /\ bpPc = "idle"
  /\ LET swept == Swept(bpEntries, bpNow)
         uncachedPids == Uncached(swept, pids, bpNow)
     IN  /\ bpEntries' = swept
         /\ bpUncached' = uncachedPids
         /\ IF uncachedPids = {}
              THEN /\ bpLog' = <<Event("cleanup", "", {}, {}), Event("return", "", {}, {})>>
                   /\ bpPc' = "idle"
              ELSE /\ bpLog' = <<Event("cleanup", "", {}, {})>>
                                 \o BatchCommands(bpPlatform, uncachedPids)
                   /\ bpPc' = "fetching"
  /\ bpPids' = pids
  /\ bpBefore' = [entries |-> bpEntries, now |-> bpNow]
  /\ UNCHANGED <<bpPlatform, bpNow>>

\* the commands have settled (a failed one gives placeholder values): every
\* fetched pid is cached, then the pass returns
BatchFetched ==
  /\ bpPc = "fetching"
  /\ bpEntries' = SetEach(bpEntries, bpUncached, bpNow)
  /\ bpLog' = bpLog \o SetEvents(bpUncached) \o <<Event("return", "", {}, {})>>
  /\ bpPc' = "idle"
  /\ UNCHANGED <<bpPlatform, bpNow, bpPids, bpBefore, bpUncached>>

\* time passes
BatchTick ==
  /\ bpNow < MaxTicks * TickMs
  /\ bpNow' = bpNow + TickMs
  /\ UNCHANGED <<bpPlatform, bpEntries, bpPc, bpPids, bpBefore, bpUncached, bpLog>>

InitBatchVars ==
  /\ bpPlatform = "unix"
  /\ bpEntries = <<>>
  /\ bpNow = 0
  /\ bpPc = "idle"
  /\ bpPids = {}
  /\ bpBefore = [entries |-> <<>>, now |-> 0]
  /\ bpUncached = {}
  /\ bpLog = <<>>

(***************************************************************************)
(* The metadata of the pids of a cycle (unix-adapter.ts 99-115, 143-161,   *)
(* 166-276; windows-adapter.ts 42-57, 151-171, 176-357) on an adapter      *)
(* whose cache holds none of them.  A metadata command either rejects      *)
(* (the tool cannot be started), exits non-zero with nothing printed, or   *)
(* prints the values of some of the pids asked for.                        *)
(***************************************************************************)
NoCwd == "null"

MetaOutcomes(pids) ==
  [kind : {"rejects", "nonzero"}, found : {{}}] \cup [kind : {"ok"}, found : SUBSET pids]

\* getBatchProcessInfoFromPs: the catch block names every pid "unknown"; the
\* exit code is not looked at, and a pid with no line has no entry.  A line
\* carries the command and the elapsed time
getBatchProcessInfoFromPs(pids, out) ==
  IF out.kind = "rejects"
    THEN [pid \in pids |-> [command |-> "unknown", lifetime |-> undefined]]
    ELSE [pid \in out.found |-> [command |-> "cmd", lifetime |-> Lifetime(5)]]

\* getBatchProcessInfoFromWmic: "unknown" for all pids on a non-zero exit or
\* an exception, and for the pids not found in the output
getBatchProcessInfoFromWmic(pids, out) ==
  [pid \in pids |->
     [command |-> IF out.kind = "ok" /\ pid \in out.found THEN "cmd" ELSE "unknown",
      lifetime |-> undefined]]

\* getBatchProcessCWD of both adapters: an empty map on failure
getBatchProcessCWD(pids, out) == [pid \in out.found |-> "/srv"]

\* getBatchProcessLifetime (windows): an empty map on failure
getBatchProcessLifetime(pids, out) == [pid \in out.found |-> Lifetime(5)]

\* the ProcessInfo built for an uncached pid
ProcessInfoMut(os, pid, processInfoMap, cwdMap, lifetimeMap) ==
  [command |-> IF pid \in DOMAIN processInfoMap THEN processInfoMap[pid].command ELSE "",
   cwd |-> IF pid \in DOMAIN cwdMap THEN cwdMap[pid] ELSE NoCwd,
   lifetime |-> IF os = "win32"
                  THEN (IF pid \in DOMAIN lifetimeMap THEN lifetimeMap[pid] ELSE undefined)
                  ELSE (IF pid \in DOMAIN processInfoMap THEN processInfoMap[pid].lifetime
                        ELSE undefined)]
ProcessInfo(os, pid, processInfoMap, cwdMap, lifetimeMap) ==
  [command |-> IF pid \in DOMAIN processInfoMap THEN processInfoMap[pid].command
               ELSE "unknown",
   cwd |-> IF pid \in DOMAIN cwdMap THEN cwdMap[pid] ELSE NoCwd,
   lifetime |-> IF os = "win32"
                  THEN (IF pid \in DOMAIN lifetimeMap THEN lifetimeMap[pid] ELSE undefined)
                  ELSE (IF pid \in DOMAIN processInfoMap THEN processInfoMap[pid].lifetime
                        ELSE undefined)]

\* getBatchProcessInfo(pids) with no pid cached
BatchInfo(os, pids, out) ==
  LET processInfoMap == IF os = "win32" THEN getBatchProcessInfoFromWmic(pids, out.command)
                        ELSE getBatchProcessInfoFromPs(pids, out.command)
      cwdMap == getBatchProcessCWD(pids, out.cwd)
      lifetimeMap == getBatchProcessLifetime(pids, out.lifetime)
  IN  [pid \in pids |-> ProcessInfo(os, pid, processInfoMap, cwdMap, lifetimeMap)]

\* the rows the parser made, one per listening pid, with the metadata of the
\* batch mapped back onto them
MappedBack(pids, info) ==
  { [pid |-> pid, command |-> info[pid].command, cwd |-> info[pid].cwd,
     lifetime |-> info[pid].lifetime] : pid \in pids }

\* the sets of listening pids a listing can parse to: as the netstat parser
\* stands (it takes the last column both for the state and for the pid) it
\* yields no row
ParsedPids(os) == IF os = "win32" THEN {{}} ELSE SUBSET Pids

\* detectPorts() after the listing tool has exited with 0
MetaDetectPorts(pids, command, cwd, lifetime) ==
  /\ mmPc = "start"
  /\ pids \in ParsedPids(mmPlatform)
  /\ mmCaller' = "detectPorts"
  /\ mmPids' = pids
  /\ mmOut' = [command |-> command, cwd |-> cwd, lifetime |-> lifetime]
  /\ mmInfo' = BatchInfo(mmPlatform, pids, mmOut')
  /\ mmPorts' = MappedBack(pids, mmInfo')
  /\ mmPc' = "done"
  /\ UNCHANGED mmPlatform

\* getProcessInfo(pid), getProcessLifetime(pid): getBatchProcessInfo([pid])
MetaGetProcessInfo(pid, command, cwd, lifetime) ==
  /\ mmPc = "start"
  /\ mmCaller' = "getProcessInfo"
  /\ mmPids' = {pid}
  /\ mmOut' = [command |-> command, cwd |-> cwd, lifetime |-> lifetime]
  /\ mmInfo' = BatchInfo(mmPlatform, {pid}, mmOut')
  /\ mmPorts' = {}
  /\ mmPc' = "done"
  /\ UNCHANGED mmPlatform

NoMeta == [kind |-> "ok", found |-> {}]

InitMetaVars ==
  /\ mmPlatform = "unix"
  /\ mmCaller = "none"
  /\ mmPids = {}
  /\ mmOut = [command |-> NoMeta, cwd |-> NoMeta, lifetime |-> NoMeta]
  /\ mmInfo = <<>>
  /\ mmPorts = {}
  /\ mmPc = "start"

(***************************************************************************)
(* getFilteredPorts() with its memo (dashboard.ts 267-315) under the       *)
(* handlers that call it or change what it is computed from: refresh       *)
(* (462-522), the keys up/down, g, 1/2/3 and the search keys.  Every       *)
(* handler ends with render(), which calls it for the main view.           *)
(***************************************************************************)
NoMemo == [valid |-> FALSE, result |-> <<>>, filter |-> <<>>, groupsHash |-> <<>>,
           sortBy |-> "port"]

\* the cache check (274-281): filter, groupsHash and sortBy are compared
MemoHit(c, gs, f, key) == CacheHit(c, gs, f) /\ c.sortBy = key

MemoGet(c, gs, f, key) == IF MemoHit(c, gs, f, key) THEN c.result ELSE Flat(gs, f)
MemoAfterGet(c, gs, f, key) ==
  IF MemoHit(c, gs, f, key) THEN c
  ELSE [valid |-> TRUE, result |-> Flat(gs, f), filter |-> f,
        groupsHash |-> GroupsHash(gs), sortBy |-> key]

\* one call of getFilteredPorts: who called, what it returned, and what the
\* recomputation from the current state gives
MemoCall(caller, c, gs, f, key) ==
  [caller |-> caller, result |-> MemoGet(c, gs, f, key), fresh |-> Flat(gs, f)]

\* the groups of successive discoveries: a port can be replaced by another
\* within its group from one cycle to the next
MemoSnapshots ==
  Snapshots \cup { <<Group("dev-server", <<PortA>>)>>,
                   <<Group("dev-server", <<PortB, PortA>>)>>,
                   <<Group("dev-server", <<PortB, PortC>>)>> }

\* the record of the "g" presses: another event ends a run of presses, and a
\* third press starts a new run
NotToggled == mzPresses' = 0 /\ mzBeforeG' = mzGroups'
Toggled ==
  /\ mzPresses' = IF mzPresses = 2 THEN 1 ELSE mzPresses + 1
  /\ mzBeforeG' = IF mzPresses = 2 THEN mzGroups ELSE mzBeforeG

\* the timer callback: refresh() with a discovery that succeeds, then render().
\* applySorting() drops the memo before the call at line 512; with a CLI sort
\* option it is not called and the memo is dropped at line 518 only
MzRefresh(gs) ==
  LET sorted == SortedOnRefresh(gs, mzCliSort, mzSortBy)
      atCall == IF mzCliSort = "none" THEN NoMemo ELSE mzCache
      flatPorts == MemoGet(atCall, sorted, mzFilter, mzSortBy)
  IN  /\ mzGroups' = sorted
      /\ mzSelected' = IF mzSelected >= Len(flatPorts)
                          THEN (IF Len(flatPorts) - 1 > 0 THEN Len(flatPorts) - 1 ELSE 0)
                          ELSE mzSelected
      /\ mzCache' = MemoAfterGet(NoMemo, sorted, mzFilter, mzSortBy)
      /\ mzCalls' = << MemoCall("refresh", atCall, sorted, mzFilter, mzSortBy),
                       MemoCall("render", NoMemo, sorted, mzFilter, mzSortBy) >>
      /\ UNCHANGED <<mzCliSort, mzFilter, mzSortBy, mzSearching>>
      /\ NotToggled

\* keys "up" and "down": moveSelection(direction), render()
MzKeyMove(direction) ==
  /\ ~mzSearching
  /\ LET flat == MemoGet(mzCache, mzGroups, mzFilter, mzSortBy)
          after == MemoAfterGet(mzCache, mzGroups, mzFilter, mzSortBy)
     IN  /\ mzSelected' = IF Len(flat) = 0 THEN mzSelected
                            ELSE WrapIndex(mzSelected + direction, Len(flat))
         /\ mzCache' = after
         /\ mzCalls' = << MemoCall("moveSelection", mzCache, mzGroups, mzFilter, mzSortBy),
                          MemoCall("render", after, mzGroups, mzFilter, mzSortBy) >>
  /\ UNCHANGED <<mzCliSort, mzGroups, mzFilter, mzSortBy, mzSearching>>
  /\ NotToggled

\* key "g": toggleGroup() reads the selected row, the handler drops the memo
\* and renders
MzKeyToggleGroup ==
  /\ ~mzSearching
  /\ LET flat == MemoGet(mzCache, mzGroups, mzFilter, mzSortBy)
          hit == [valid |-> TRUE, result |-> flat, filter |-> mzFilter,
                  groupsHash |-> GroupsHash(mzGroups)]
          toggled == toggleGroup(hit, mzGroups, mzFilter, mzSelected)
     IN  /\ mzGroups' = toggled
         /\ mzCache' = MemoAfterGet(NoMemo, toggled, mzFilter, mzSortBy)
         /\ mzCalls' = << MemoCall("getSelectedPort", mzCache, mzGroups, mzFilter, mzSortBy),
                          MemoCall("render", NoMemo, toggled, mzFilter, mzSortBy) >>
  /\ UNCHANGED <<mzCliSort, mzFilter, mzSortBy, mzSearching, mzSelected>>
  /\ Toggled

\* keys "1", "2", "3": sortBy is set, applySorting() sorts and drops the memo
MzKeySort(key) ==
  /\ ~mzSearching
  /\ mzSortBy' = SortOf(key)
  /\ mzGroups' = applySorting(mzGroups, mzSortBy')
  /\ mzCache' = MemoAfterGet(NoMemo, mzGroups', mzFilter, mzSortBy')
  /\ mzCalls' = << MemoCall("render", NoMemo, mzGroups', mzFilter, mzSortBy') >>
  /\ UNCHANGED <<mzCliSort, mzFilter, mzSearching, mzSelected>>
  /\ NotToggled

\* key "/" starts a search, "enter" ends it and keeps the filter
MzKeySearch ==
  /\ mzSearching' = ~mzSearching
  /\ mzCache' = MemoAfterGet(IF mzSearching THEN NoMemo ELSE mzCache,
                             mzGroups, mzFilter, mzSortBy)
  /\ mzCalls' = << MemoCall("render", IF mzSearching THEN NoMemo ELSE mzCache,
                            mzGroups, mzFilter, mzSortBy) >>
  /\ UNCHANGED <<mzCliSort, mzGroups, mzFilter, mzSortBy, mzSelected>>
  /\ NotToggled

\* a digit or "backspace" while searching: the filter changes, the memo is
\* dropped, render()
MzKeyFilter(f) ==
  /\ mzSearching
  /\ \/ Len(mzFilter) < MaxFilterLen /\ \E d \in SearchDigits : f = Append(mzFilter, d)
     \/ f = SubSeq(mzFilter, 1, Len(mzFilter) - 1)
  /\ mzFilter' = f
  /\ mzCache' = MemoAfterGet(NoMemo, mzGroups, f, mzSortBy)
  /\ mzCalls' = << MemoCall("render", NoMemo, mzGroups, f, mzSortBy) >>
  /\ UNCHANGED <<mzCliSort, mzGroups, mzSortBy, mzSearching, mzSelected>>
  /\ NotToggled

InitMemoVars ==
  /\ mzCliSort = "none"
  /\ mzGroups = <<>>
  /\ mzFilter = <<>>
  /\ mzSortBy = "port"
  /\ mzSearching = FALSE
  /\ mzSelected = 0
  /\ mzCache = NoMemo
  /\ mzCalls = <<>>
  /\ mzPresses = 0
  /\ mzBeforeG = <<>>

(***************************************************************************)
(* refresh() called from the timer callback (dashboard.ts 530-535) and     *)
(* from handleKill (dashboard-handlers.ts 346) while another call is       *)
(* suspended at `await this.detector.detectPorts()` (dashboard.ts 464).    *)
(* The listing tool of a call reads the socket table at some moment        *)
(* between the start of the call and its completion; nothing in refresh()  *)
(* tells a late completion from a recent one.                              *)
(***************************************************************************)
\* the number of refresh() calls followed
MaxCalls == MaxCycles + 1

NotRead == <<>>

\* the calls still suspended at the await
Suspended == {i \in DOMAIN ovCalls : ovCalls[i].pc # "done"}

\* a process starts or stops listening
OvWorldChange(gs) ==
  /\ gs # ovWorld
  /\ ovWorld' = gs
  /\ UNCHANGED <<ovCalls, ovGroups, ovApplied>>

\* refresh() is called and suspends at the await; by is "timer" or "action"
OvRefresh(by) ==
  /\ Len(ovCalls) < MaxCalls
  /\ ovCalls' = Append(ovCalls, [by |-> by, pc |-> "started", read |-> NotRead])
  /\ UNCHANGED <<ovWorld, ovGroups, ovApplied>>

\* the listing tool of call i reads the socket table
OvRead(i) ==
  /\ i \in DOMAIN ovCalls /\ ovCalls[i].pc = "started"
  /\ ovCalls' = [ovCalls EXCEPT ![i] = [@ EXCEPT !.pc = "read", !.read = ovWorld]]
  /\ UNCHANGED <<ovWorld, ovGroups, ovApplied>>

\* detectPorts() of call i resolves: the rest of refresh() runs, and the
\* caller's render()
OvRefreshDone(i) ==
  /\ i \in DOMAIN ovCalls /\ ovCalls[i].pc = "read"
  /\ ovCalls' = [ovCalls EXCEPT ![i] = [@ EXCEPT !.pc = "done"]]
  /\ ovGroups' = ovCalls[i].read
  /\ ovApplied' = i
  /\ UNCHANGED ovWorld

InitOverlapVars ==
  /\ ovWorld = <<>>
  /\ ovCalls = <<>>
  /\ ovGroups = <<>>
  /\ ovApplied = 0

(***************************************************************************)
(* The confirmation modal: every statement of the dashboard that reads or  *)
(* writes showConfirm or confirmAction (dashboard.ts 110-111;              *)
(* dashboard-handlers.ts 47-57, 206-224, 246-264), with the kill key and   *)
(* killPort (windows-adapter.ts 532-543), whose confirm parameter was      *)
(* meant to bring the modal up.                                            *)
(***************************************************************************)
\* killPort(portInfo, force, confirm): what the call does
killPort(force, confirm) ==
  IF confirm /\ ~force THEN "confirmation needed" ELSE "killProcess"

CfModalOpen == cfShowHelp \/ cfShowConfirm \/ cfSearching

\* the selection moves to another row, or a refresh changes the list
CfSelect(port) ==
  /\ ~CfModalOpen
  /\ port # cfSelected
  /\ cfSelected' = port
  /\ UNCHANGED <<cfShowHelp, cfSearching, cfShowConfirm, cfConfirmAction, cfCalls>>

\* key "?"
CfKeyHelp ==
  /\ cfShowHelp' = ~cfShowHelp
  /\ UNCHANGED <<cfSearching, cfShowConfirm, cfConfirmAction, cfSelected, cfCalls>>

\* key "/"
CfKeySearch ==
  /\ ~CfModalOpen
  /\ cfSearching' = TRUE
  /\ UNCHANGED <<cfShowHelp, cfShowConfirm, cfConfirmAction, cfSelected, cfCalls>>

\* key "escape": the first of search, help and confirm that is open is closed
CfKeyEscape ==
  /\ CfModalOpen
  /\ IF cfSearching
       THEN cfSearching' = FALSE /\ UNCHANGED <<cfShowHelp, cfShowConfirm, cfConfirmAction>>
       ELSE IF cfShowHelp
              THEN cfShowHelp' = FALSE
                   /\ UNCHANGED <<cfSearching, cfShowConfirm, cfConfirmAction>>
              ELSE /\ cfShowConfirm' = FALSE
                   /\ cfConfirmAction' = "null"
                   /\ UNCHANGED <<cfSearching, cfShowHelp>>
  /\ UNCHANGED <<cfSelected, cfCalls>>

\* key "enter": ends a search, or runs the confirmed action
CfKeyEnter ==
  /\ IF cfSearching
       THEN /\ cfSearching' = FALSE
            /\ UNCHANGED <<cfShowConfirm, cfCalls>>
       ELSE IF cfShowConfirm /\ cfConfirmAction # "null"
              THEN /\ cfShowConfirm' = FALSE
                   /\ cfCalls' = Append(cfCalls, [port |-> cfSelected, force |-> FALSE,
                                                  confirm |-> FALSE, does |-> "confirmAction"])
                   /\ UNCHANGED cfSearching
              ELSE UNCHANGED <<cfSearching, cfShowConfirm, cfCalls>>
  /\ UNCHANGED <<cfShowHelp, cfConfirmAction, cfSelected>>

\* key "k": handleKill calls killPort(selected.port, false, false)
CfKeyKillMut ==
  /\ ~CfModalOpen
  /\ cfSelected # NoPort
  /\ Len(cfCalls) < MaxCalls
  /\ cfCalls' = Append(cfCalls, [port |-> cfSelected, force |-> FALSE, confirm |-> TRUE,
                                 does |-> killPort(FALSE, TRUE)])
  /\ UNCHANGED <<cfShowHelp, cfSearching, cfShowConfirm, cfConfirmAction, cfSelected>>
CfKeyKill ==
  /\ ~CfModalOpen
  /\ cfSelected # NoPort
  /\ Len(cfCalls) < MaxCalls
  /\ cfCalls' = Append(cfCalls, [port |-> cfSelected, force |-> FALSE, confirm |-> FALSE,
                                 does |-> killPort(FALSE, FALSE)])
  /\ UNCHANGED <<cfShowHelp, cfSearching, cfShowConfirm, cfConfirmAction, cfSelected>>

InitConfirmVars ==
  /\ cfShowHelp = FALSE
  /\ cfSearching = FALSE
  /\ cfShowConfirm = FALSE
  /\ cfConfirmAction = "null"
  /\ cfSelected = NoPort
  /\ cfCalls = <<>>

(***************************************************************************)
(* Initial states and specifications.                                      *)
(***************************************************************************)
InitKillVars ==
  /\ platform \in {"unix", "win32"}
  /\ processInfoCache = {}
  /\ killPc = "idle"
  /\ killPid = 1
  /\ killForce = FALSE
  /\ killLog = <<>>
  /\ killResult = FALSE
  /\ termRes = NoRes
  /\ checkRes = NoRes
  /\ forceRes = NoRes

InitLimVars ==
  /\ running = 0
  /\ queue = <<>>
  /\ submitted = 0
  /\ started = <<>>
  /\ settled = {}
  /\ everQueued = {}
  /\ lastOutcome = "none"

\* every group at its initial value
InitMore ==
  /\ InitSearchVars
  /\ InitFilterVars
  /\ InitHandleKillVars
  /\ InitAdapterVars
  /\ InitKeysVars
  /\ InitSortVars
  /\ InitBatchVars
  /\ InitMetaVars
  /\ InitMemoVars
  /\ InitOverlapVars
  /\ InitConfirmVars

InitRest ==
  /\ InitParseVars /\ InitRefreshVars /\ InitRenderVars /\ InitKillPortVars
  /\ InitCacheVars /\ InitEtimeVars /\ InitKeyboardVars /\ InitMore

InitKill == InitKillVars /\ InitLimVars /\ InitDashVars /\ InitRest

NextKill ==
  \/ \E pid \in Pids, force \in BOOLEAN : KillProcess(pid, force) /\ UNCHANGED <<limVars, dashVars, restVars>>
  \/ \E res \in SpawnResults : KillForced(res) /\ UNCHANGED <<limVars, dashVars, restVars>>
  \/ \E res \in SpawnResults : KillTerm(res) /\ UNCHANGED <<limVars, dashVars, restVars>>
  \/ KillWait /\ UNCHANGED <<limVars, dashVars, restVars>>
  \/ \E res \in SpawnResults : KillCheck(res) /\ UNCHANGED <<limVars, dashVars, restVars>>
  \/ \E res \in SpawnResults : KillEscalate(res) /\ UNCHANGED <<limVars, dashVars, restVars>>
  \/ \E pids \in SUBSET Pids : GetBatchProcessInfo(pids) /\ UNCHANGED <<limVars, dashVars, restVars>>

SpecKill == InitKill /\ [][NextKill]_vars

InitLimiter == InitKillVars /\ platform = "unix" /\ InitLimVars /\ InitDashVars /\ InitRest

NextLimiter ==
  \/ Run /\ UNCHANGED <<killVars, dashVars, restVars>>
  \/ \E t \in 1..(limit + ExtraTasks), outcome \in {"resolve", "reject"} :
       Settle(t, outcome) /\ UNCHANGED <<killVars, dashVars, restVars>>

SpecLimiter == InitLimiter /\ [][NextLimiter]_vars

\* the limiter when the tasks that have started settle in the end: while a
\* task is in flight, the promise of one of them resolves or rejects.  This
\* follows from every started task settling in the end
Settles ==
  \E t \in 1..(limit + ExtraTasks), outcome \in {"resolve", "reject"} :
    Settle(t, outcome) /\ UNCHANGED <<killVars, dashVars, restVars>>

SpecLimiterLive == InitLimiter /\ [][NextLimiter]_vars /\ WF_vars(Settles)

InitDash == InitKillVars /\ platform = "unix" /\ InitLimVars /\ InitDashVars /\ InitRest

NextDash ==
  \/ \E res \in DetectResults : Start(res) /\ UNCHANGED <<killVars, limVars, restVars>>
  \/ \E direction \in {-1, 1} : KeyMove(direction) /\ UNCHANGED <<killVars, limVars, restVars>>
  \/ KeySearch /\ UNCHANGED <<killVars, limVars, restVars>>
  \/ \E d \in SearchDigits : KeyDigit(d) /\ UNCHANGED <<killVars, limVars, restVars>>
  \/ KeyBackspace /\ UNCHANGED <<killVars, limVars, restVars>>
  \/ KeyHelp /\ UNCHANGED <<killVars, limVars, restVars>>
  \/ KeyStats /\ UNCHANGED <<killVars, limVars, restVars>>
  \/ KeyEscape /\ UNCHANGED <<killVars, limVars, restVars>>
  \/ KeyEnter /\ UNCHANGED <<killVars, limVars, restVars>>
  \/ KeyToggleGroup /\ UNCHANGED <<killVars, limVars, restVars>>
  \/ KeyCopy /\ UNCHANGED <<killVars, limVars, restVars>>
  \/ KeyViewCommand /\ UNCHANGED <<killVars, limVars, restVars>>
  \/ ViewCommandDone /\ UNCHANGED <<killVars, limVars, restVars>>
  \/ KeyViewLogs /\ UNCHANGED <<killVars, limVars, restVars>>
  \/ ViewLogsDone /\ UNCHANGED <<killVars, limVars, restVars>>
  \/ TimerTick /\ UNCHANGED <<killVars, limVars, restVars>>
  \/ \E res \in DetectResults : TimerRefreshDone(res) /\ UNCHANGED <<killVars, limVars, restVars>>
  \/ \E renderThrows \in BOOLEAN : KeyKill(renderThrows) /\ UNCHANGED <<killVars, limVars, restVars>>
  \/ \E throws \in BOOLEAN : KillPortDone(throws) /\ UNCHANGED <<killVars, limVars, restVars>>
  \/ KillDelayDone /\ UNCHANGED <<killVars, limVars, restVars>>
  \/ \E res \in DetectResults, renderThrows \in BOOLEAN : KillRefreshDone(res, renderThrows)
       /\ UNCHANGED <<killVars, limVars, restVars>>
  \/ \E res \in DetectResults : KillCatchRefreshDone(res) /\ UNCHANGED <<killVars, limVars, restVars>>

SpecDash == InitDash /\ [][NextDash]_vars

\* detectPorts() of one adapter, on every output its listing tool can print
InitParse ==
  /\ InitMore
  /\ InitKillVars /\ InitLimVars /\ InitDashVars /\ InitRefreshVars /\ InitRenderVars
  /\ InitKillPortVars /\ InitCacheVars /\ InitEtimeVars /\ InitKeyboardVars
  /\ listing \in (IF platform = "win32" THEN Listings(NetstatLines) ELSE Listings(LsofLines))
  /\ detected = <<>>
  /\ parsePc = "start"

NextParse ==
  \/ \E res \in SpawnResults : DetectPorts(res) /\ UNCHANGED <<killVars, limVars, dashVars, refreshVars, renderVars, killPortVars, cacheVars, etimeVars, keyboardVars, moreVars>>

SpecParse == InitParse /\ [][NextParse]_vars

\* the dashboard under discovery cycles: the keys that move the selection,
\* filter the list, collapse a group and kill a process, the refresh timer
\* and the completions, with the refresh body in full; no modal is opened
InitRefresh == InitDash

NextRefresh ==
  \/ \E res \in DetectResults : Start(res) /\ RefreshRest(res)
       /\ UNCHANGED <<killVars, limVars, parseVars, renderVars, killPortVars, cacheVars, etimeVars, keyboardVars, moreVars>>
  \/ \E direction \in {-1, 1} : KeyMove(direction) /\ RefreshIdle
       /\ UNCHANGED <<killVars, limVars, parseVars, renderVars, killPortVars, cacheVars, etimeVars, keyboardVars, moreVars>>
  \/ KeySearch /\ RefreshIdle /\ UNCHANGED <<killVars, limVars, parseVars, renderVars, killPortVars, cacheVars, etimeVars, keyboardVars, moreVars>>
  \/ \E d \in SearchDigits : KeyDigit(d) /\ RefreshIdle
       /\ UNCHANGED <<killVars, limVars, parseVars, renderVars, killPortVars, cacheVars, etimeVars, keyboardVars, moreVars>>
  \/ KeyBackspace /\ RefreshIdle /\ UNCHANGED <<killVars, limVars, parseVars, renderVars, killPortVars, cacheVars, etimeVars, keyboardVars, moreVars>>
  \/ KeyEscape /\ RefreshIdle /\ UNCHANGED <<killVars, limVars, parseVars, renderVars, killPortVars, cacheVars, etimeVars, keyboardVars, moreVars>>
  \/ KeyEnter /\ RefreshIdle /\ UNCHANGED <<killVars, limVars, parseVars, renderVars, killPortVars, cacheVars, etimeVars, keyboardVars, moreVars>>
  \/ KeyToggleGroup /\ RefreshIdle /\ UNCHANGED <<killVars, limVars, parseVars, renderVars, killPortVars, cacheVars, etimeVars, keyboardVars, moreVars>>
  \/ TimerTick /\ RefreshIdle /\ UNCHANGED <<killVars, limVars, parseVars, renderVars, killPortVars, cacheVars, etimeVars, keyboardVars, moreVars>>
  \/ \E res \in DetectResults : TimerRefreshDone(res) /\ RefreshRest(res)
       /\ UNCHANGED <<killVars, limVars, parseVars, renderVars, killPortVars, cacheVars, etimeVars, keyboardVars, moreVars>>
  \/ \E renderThrows \in BOOLEAN : KeyKill(renderThrows) /\ RefreshIdle
       /\ UNCHANGED <<killVars, limVars, parseVars, renderVars, killPortVars, cacheVars, etimeVars, keyboardVars, moreVars>>
  \/ \E throws \in BOOLEAN : KillPortDone(throws) /\ RefreshIdle
       /\ UNCHANGED <<killVars, limVars, parseVars, renderVars, killPortVars, cacheVars, etimeVars, keyboardVars, moreVars>>
  \/ KillDelayDone /\ RefreshIdle /\ UNCHANGED <<killVars, limVars, parseVars, renderVars, killPortVars, cacheVars, etimeVars, keyboardVars, moreVars>>
  \/ \E res \in DetectResults, renderThrows \in BOOLEAN :
       KillRefreshDone(res, renderThrows) /\ RefreshRest(res)
       /\ UNCHANGED <<killVars, limVars, parseVars, renderVars, killPortVars, cacheVars, etimeVars, keyboardVars, moreVars>>
  \/ \E res \in DetectResults : KillCatchRefreshDone(res) /\ RefreshRest(res)
       /\ UNCHANGED <<killVars, limVars, parseVars, renderVars, killPortVars, cacheVars, etimeVars, keyboardVars, moreVars>>

SpecRefresh == InitRefresh /\ [][NextRefresh]_vars

\* one call of render(), on every view and every previous frame
InitRender ==
  /\ InitMore
  /\ InitKillVars /\ platform = "unix" /\ InitLimVars /\ InitDashVars
  /\ InitParseVars /\ InitRefreshVars /\ InitKillPortVars /\ InitCacheVars /\ InitEtimeVars /\ InitKeyboardVars
  /\ view \in Views
  /\ previousRenderState \in Frames \cup {NoFrame}
  /\ frameBefore = previousRenderState
  /\ toastBefore = view.killMessage
  /\ toastPainted = FALSE
  /\ painted = NotPainted
  /\ renderPc = "start"

NextRender ==
  \/ Render /\ UNCHANGED <<killVars, limVars, dashVars, parseVars, refreshVars, killPortVars, cacheVars, etimeVars, keyboardVars, moreVars>>

SpecRender == InitRender /\ [][NextRender]_vars

\* one call of killPortByNumber, on every snapshot of up to MaxEntries entries
InitKillPort ==
  /\ InitMore
  /\ InitKillVars /\ platform = "unix" /\ InitLimVars /\ InitDashVars
  /\ InitParseVars /\ InitRefreshVars /\ InitRenderVars /\ InitCacheVars /\ InitEtimeVars /\ InitKeyboardVars
  /\ kpSnapshot \in UNION {[1..n -> SnapshotEntries] : n \in 0..MaxEntries}
  /\ kpPort = 0 /\ kpForce = FALSE /\ kpPc = "idle"
  /\ kpMatching = <<>> /\ kpKilled = <<>> /\ kpFailed = <<>> /\ kpCalls = <<>>
  /\ kpResults = <<>>
  /\ kpReturn = NoReturn

NextKillPort ==
  \/ \E port \in AskedPorts, force \in BOOLEAN : KillPortByNumber(port, force)
       /\ UNCHANGED <<killVars, limVars, dashVars, parseVars, refreshVars, renderVars, cacheVars, etimeVars, keyboardVars, moreVars>>
  \/ \E ok \in BOOLEAN : KpDetected(ok)
       /\ UNCHANGED <<killVars, limVars, dashVars, parseVars, refreshVars, renderVars, cacheVars, etimeVars, keyboardVars, moreVars>>
  \/ \E result \in BOOLEAN : KpKilled(result)
       /\ UNCHANGED <<killVars, limVars, dashVars, parseVars, refreshVars, renderVars, cacheVars, etimeVars, keyboardVars, moreVars>>

SpecKillPort == InitKillPort /\ [][NextKillPort]_vars

\* one CacheManager under set, get, delete, cleanup and the passing of time
InitCache ==
  /\ InitMore
  /\ InitKillVars /\ platform = "unix" /\ InitLimVars /\ InitDashVars
  /\ InitParseVars /\ InitRefreshVars /\ InitRenderVars /\ InitKillPortVars
  /\ InitCacheVars /\ InitEtimeVars /\ InitKeyboardVars

OthersOfCache ==
  UNCHANGED <<killVars, limVars, dashVars, parseVars, refreshVars, renderVars, killPortVars,
              etimeVars, keyboardVars, moreVars>>

NextCache ==
  \/ \E pid \in CachePids, value \in CacheValues : CacheSet(pid, value) /\ OthersOfCache
  \/ CacheSetBatch /\ OthersOfCache
  \/ \E pid \in ProbedPids : CacheGet(pid) /\ OthersOfCache
  \/ \E pid \in CachePids : CacheDelete(pid) /\ OthersOfCache
  \/ CacheCleanup /\ OthersOfCache
  \/ CacheTick /\ OthersOfCache

SpecCache == InitCache /\ [][NextCache]_vars

\* one call of parseEtime, on every writing of the elapsed times of Elapsed
InitEtime ==
  /\ InitMore
  /\ InitKillVars /\ platform = "unix" /\ InitLimVars /\ InitDashVars
  /\ InitParseVars /\ InitRefreshVars /\ InitRenderVars /\ InitKillPortVars
  /\ InitCacheVars /\ InitKeyboardVars
  /\ etElapsed \in Elapsed
  /\ \E form \in EtimeForms, padded \in BOOLEAN :
       FormFits(etElapsed, form) /\ etStr = Etime(etElapsed, form, padded)
  /\ etResult = undefined
  /\ etPc = "start"

NextEtime ==
  \/ ParseEtime
       /\ UNCHANGED <<killVars, limVars, dashVars, parseVars, refreshVars, renderVars,
                      killPortVars, cacheVars, keyboardVars, moreVars>>

SpecEtime == InitEtime /\ [][NextEtime]_vars

\* one KeyboardHandler under registrations, start, stop and key events
InitKeyboard ==
  /\ InitMore
  /\ InitKillVars /\ platform = "unix" /\ InitLimVars /\ InitDashVars
  /\ InitParseVars /\ InitRefreshVars /\ InitRenderVars /\ InitKillPortVars
  /\ InitCacheVars /\ InitEtimeVars
  /\ InitKeyboardVars

OthersOfKeyboard ==
  UNCHANGED <<killVars, limVars, dashVars, parseVars, refreshVars, renderVars, killPortVars,
              cacheVars, etimeVars, moreVars>>

NextKeyboard ==
  \/ \E key \in HandlerKeys : On(key) /\ OthersOfKeyboard
  \/ \E key \in HandlerKeys : Off(key) /\ OthersOfKeyboard
  \/ KbStart /\ OthersOfKeyboard
  \/ KbStop /\ OthersOfKeyboard
  \/ \E sequence \in ByteSequences, exact \in Outcomes, generic \in Outcomes :
       KeyData(sequence, exact, generic) /\ OthersOfKeyboard

SpecKeyboard == InitKeyboard /\ [][NextKeyboard]_vars

\* the dashboard under the arrow keys and the keys of search mode, with the
\* typed digits recorded
InitOthersOfSearch ==
  /\ InitKillVars /\ platform = "unix" /\ InitLimVars /\ InitParseVars
  /\ InitRefreshVars /\ InitRenderVars /\ InitKillPortVars /\ InitCacheVars
  /\ InitEtimeVars /\ InitKeyboardVars /\ InitFilterVars /\ InitHandleKillVars
  /\ InitAdapterVars /\ InitKeysVars /\ InitSortVars /\ InitBatchVars /\ InitMetaVars
  /\ InitMemoVars /\ InitOverlapVars /\ InitConfirmVars

InitSearch ==
  /\ InitOthersOfSearch
  /\ InitDashVars
  /\ typed = [NotTyped EXCEPT !.on = TRUE]

OthersOfSearch ==
  UNCHANGED <<killVars, limVars, parseVars, refreshVars, renderVars, killPortVars,
              cacheVars, etimeVars, keyboardVars, filterVars, handleKillVars,
              adapterVars, keysVars, sortVars, batchVars, metaVars, memoVars,
              overlapVars, confirmVars>>

NextSearch ==
  \/ \E res \in DetectResults : Start(res) /\ UNCHANGED typed /\ OthersOfSearch
  \/ \E direction \in {-1, 1} : KeyMove(direction) /\ UNCHANGED typed /\ OthersOfSearch
  \/ KeySearch /\ TypedSearch /\ OthersOfSearch
  \/ \E d \in SearchDigits : KeyDigit(d) /\ TypedDigit(d) /\ OthersOfSearch
  \/ KeyBackspace /\ TypedBackspace /\ OthersOfSearch
  \/ KeyEscape /\ TypedEscape /\ OthersOfSearch
  \/ KeyEnter /\ TypedEnter /\ OthersOfSearch

SpecSearch == InitSearch /\ [][NextSearch]_vars

InitOthersOfFilter ==
  /\ InitKillVars /\ platform = "unix" /\ InitLimVars /\ InitDashVars
  /\ InitParseVars /\ InitRefreshVars /\ InitRenderVars /\ InitKillPortVars
  /\ InitCacheVars /\ InitEtimeVars /\ InitKeyboardVars /\ InitSearchVars
  /\ InitHandleKillVars /\ InitAdapterVars /\ InitKeysVars /\ InitSortVars
  /\ InitBatchVars /\ InitMetaVars /\ InitMemoVars /\ InitOverlapVars /\ InitConfirmVars

OthersOfFilter ==
  UNCHANGED <<killVars, limVars, dashVars, parseVars, refreshVars, renderVars,
              killPortVars, cacheVars, etimeVars, keyboardVars, searchVars,
              handleKillVars, adapterVars, keysVars, sortVars, batchVars, metaVars,
              memoVars, overlapVars, confirmVars>>

\* one call of getFilteredPorts
InitFilter ==
  /\ InitOthersOfFilter
  /\ fpGroups \in UNION {Collapsings(gs) : gs \in Snapshots}
  /\ fpFilter \in Filters
  /\ fpResult = <<>>
  /\ fpPc = "start"

NextFilter ==
  \/ GetFilteredPorts /\ OthersOfFilter

SpecFilter == InitFilter /\ [][NextFilter]_vars

InitOthersOfHandleKill ==
  /\ InitKillVars /\ platform = "unix" /\ InitLimVars /\ InitDashVars
  /\ InitParseVars /\ InitRefreshVars /\ InitRenderVars /\ InitKillPortVars
  /\ InitCacheVars /\ InitEtimeVars /\ InitKeyboardVars /\ InitSearchVars
  /\ InitFilterVars /\ InitAdapterVars /\ InitKeysVars /\ InitSortVars
  /\ InitBatchVars /\ InitMetaVars /\ InitMemoVars /\ InitOverlapVars /\ InitConfirmVars

OthersOfHandleKill ==
  UNCHANGED <<killVars, limVars, dashVars, parseVars, refreshVars, renderVars,
              killPortVars, cacheVars, etimeVars, keyboardVars, searchVars, filterVars,
              adapterVars, keysVars, sortVars, batchVars, metaVars, memoVars,
              overlapVars, confirmVars>>

\* one kill request, with a selected port or none, the detector holding a
\* memoized snapshot or not
InitHandleKill ==
  /\ InitOthersOfHandleKill
  /\ hkPc = "idle"
  /\ hkSelected \in {NoPort} \cup KillablePorts
  /\ hkKilling = FALSE
  /\ hkMemo \in BOOLEAN
  /\ hkThrown = FALSE
  /\ hkOutcome = "none"
  /\ hkLog = <<>>
  /\ hkShown = "old"

NextHandleKill ==
  \/ \E renderThrows \in BOOLEAN : HandleKill(renderThrows) /\ OthersOfHandleKill
  \/ \E outcome \in KillOutcomes, statsThrow \in BOOLEAN, renderThrows \in BOOLEAN :
       KillPortSettled(outcome, statsThrow, renderThrows) /\ OthersOfHandleKill
  \/ HkDelayDone /\ OthersOfHandleKill
  \/ \E ok \in BOOLEAN, renderThrows \in BOOLEAN :
       HkRefreshDone(ok, renderThrows) /\ OthersOfHandleKill
  \/ \E ok \in BOOLEAN, renderThrows \in BOOLEAN :
       HkCatchRefreshDone(ok, renderThrows) /\ OthersOfHandleKill

SpecHandleKill == InitHandleKill /\ [][NextHandleKill]_vars

InitOthersOfAdapter ==
  /\ InitKillVars /\ platform = "unix" /\ InitLimVars /\ InitDashVars
  /\ InitParseVars /\ InitRefreshVars /\ InitRenderVars /\ InitKillPortVars
  /\ InitCacheVars /\ InitEtimeVars /\ InitKeyboardVars /\ InitSearchVars
  /\ InitFilterVars /\ InitHandleKillVars /\ InitKeysVars /\ InitSortVars
  /\ InitBatchVars /\ InitMetaVars /\ InitMemoVars /\ InitOverlapVars /\ InitConfirmVars

OthersOfAdapter ==
  UNCHANGED <<killVars, limVars, dashVars, parseVars, refreshVars, renderVars,
              killPortVars, cacheVars, etimeVars, keyboardVars, searchVars, filterVars,
              handleKillVars, keysVars, sortVars, batchVars, metaVars, memoVars,
              overlapVars, confirmVars>>

\* the dashboard's detector with its adapter, and kills from the dashboard
InitAdapter ==
  /\ InitOthersOfAdapter
  /\ InitAdapterVars

NextAdapter ==
  \/ \E pid \in Pids : PaListen(pid) /\ OthersOfAdapter
  \/ PaDetectPorts /\ OthersOfAdapter
  \/ PaExpire /\ OthersOfAdapter
  \/ \E pid \in Pids, outcome \in KillOutcomes :
       PaKillProcess(pid, outcome) /\ OthersOfAdapter

SpecAdapter == InitAdapter /\ [][NextAdapter]_vars

InitOthersOfModalKeys ==
  /\ InitKillVars /\ platform = "unix" /\ InitLimVars /\ InitParseVars
  /\ InitRefreshVars /\ InitRenderVars /\ InitKillPortVars /\ InitCacheVars
  /\ InitEtimeVars /\ InitKeyboardVars /\ InitSearchVars /\ InitFilterVars
  /\ InitHandleKillVars /\ InitAdapterVars /\ InitSortVars /\ InitBatchVars
  /\ InitMetaVars /\ InitMemoVars /\ InitOverlapVars /\ InitConfirmVars

OthersOfModalKeys ==
  UNCHANGED <<killVars, limVars, parseVars, refreshVars, renderVars, killPortVars,
              cacheVars, etimeVars, keyboardVars, searchVars, filterVars,
              handleKillVars, adapterVars, sortVars, batchVars, metaVars, memoVars,
              overlapVars, confirmVars>>

\* the dashboard with the keys that only act in normal navigation, among them
\* those that open the search and the command view, and the help key
InitModalKeys ==
  /\ InitOthersOfModalKeys
  /\ InitDashVars
  /\ InitKeysVars

SortKept == UNCHANGED <<sortBy, showDetails>>

NextModalKeys ==
  \/ \E res \in DetectResults : Start(res) /\ Keyed("none") /\ SortKept /\ OthersOfModalKeys
  \/ KeyMove(-1) /\ Keyed("navigation") /\ SortKept /\ OthersOfModalKeys
  \/ KeyMove(1) /\ Keyed("navigation") /\ SortKept /\ OthersOfModalKeys
  \/ KeySearch /\ Keyed("navigation") /\ SortKept /\ OthersOfModalKeys
  \/ KeyHelp /\ Keyed("none") /\ SortKept /\ OthersOfModalKeys
  \/ KeyKill(FALSE) /\ Keyed("navigation") /\ SortKept /\ OthersOfModalKeys
  \/ KeyCopy /\ Keyed("navigation") /\ SortKept /\ OthersOfModalKeys
  \/ KeyViewCommand /\ Keyed("navigation") /\ SortKept /\ OthersOfModalKeys
  \/ KeyViewLogs /\ Keyed("navigation") /\ SortKept /\ OthersOfModalKeys
  \/ KeyToggleGroup /\ Keyed("navigation") /\ SortKept /\ OthersOfModalKeys
  \/ KeyDetails /\ Keyed("navigation") /\ OthersOfModalKeys
  \/ \E key \in SortKeys : KeySort(key) /\ Keyed("digit") /\ OthersOfModalKeys

SpecModalKeys == InitModalKeys /\ [][NextModalKeys]_vars

InitOthersOfSort ==
  /\ InitKillVars /\ platform = "unix" /\ InitLimVars /\ InitDashVars
  /\ InitParseVars /\ InitRefreshVars /\ InitRenderVars /\ InitKillPortVars
  /\ InitCacheVars /\ InitEtimeVars /\ InitKeyboardVars /\ InitSearchVars
  /\ InitFilterVars /\ InitHandleKillVars /\ InitAdapterVars /\ InitKeysVars
  /\ InitBatchVars /\ InitMetaVars /\ InitMemoVars /\ InitOverlapVars /\ InitConfirmVars

OthersOfSort ==
  UNCHANGED <<killVars, limVars, dashVars, parseVars, refreshVars, renderVars,
              killPortVars, cacheVars, etimeVars, keyboardVars, searchVars, filterVars,
              handleKillVars, adapterVars, keysVars, batchVars, metaVars, memoVars,
              overlapVars, confirmVars>>

\* a dashboard constructed with or without a CLI sort option
InitSort ==
  /\ InitOthersOfSort
  /\ srGroups = <<>>
  /\ srSortBy = "port"
  /\ srCliSort \in {"none"} \cup SortOptions
  /\ srLast = "none"

NextSort ==
  \/ \E gs \in SortSnapshots : SrRefresh(gs) /\ OthersOfSort
  \/ \E key \in SortKeys : SrKeySort(key) /\ OthersOfSort

SpecSort == InitSort /\ [][NextSort]_vars

InitOthersOfBatch ==
  /\ InitKillVars /\ platform = "unix" /\ InitLimVars /\ InitDashVars
  /\ InitParseVars /\ InitRefreshVars /\ InitRenderVars /\ InitKillPortVars
  /\ InitCacheVars /\ InitEtimeVars /\ InitKeyboardVars /\ InitSearchVars
  /\ InitFilterVars /\ InitHandleKillVars /\ InitAdapterVars /\ InitKeysVars
  /\ InitSortVars /\ InitMetaVars /\ InitMemoVars /\ InitOverlapVars /\ InitConfirmVars

OthersOfBatch ==
  UNCHANGED <<killVars, limVars, dashVars, parseVars, refreshVars, renderVars,
              killPortVars, cacheVars, etimeVars, keyboardVars, searchVars, filterVars,
              handleKillVars, adapterVars, keysVars, sortVars, metaVars, memoVars,
              overlapVars, confirmVars>>

\* the passes of one adapter, of either platform, as time goes by
InitBatch ==
  /\ InitOthersOfBatch
  /\ bpPlatform \in {"unix", "win32"}
  /\ bpEntries = <<>>
  /\ bpNow = 0
  /\ bpPc = "idle"
  /\ bpPids = {}
  /\ bpBefore = [entries |-> <<>>, now |-> 0]
  /\ bpUncached = {}
  /\ bpLog = <<>>

NextBatch ==
  \/ \E pids \in SUBSET Pids : BatchCalled(pids) /\ OthersOfBatch
  \/ BatchFetched /\ OthersOfBatch
  \/ BatchTick /\ OthersOfBatch

SpecBatch == InitBatch /\ [][NextBatch]_vars

InitOthersOfMeta ==
  /\ InitKillVars /\ platform = "unix" /\ InitLimVars /\ InitDashVars
  /\ InitParseVars /\ InitRefreshVars /\ InitRenderVars /\ InitKillPortVars
  /\ InitCacheVars /\ InitEtimeVars /\ InitKeyboardVars /\ InitSearchVars
  /\ InitFilterVars /\ InitHandleKillVars /\ InitAdapterVars /\ InitKeysVars
  /\ InitSortVars /\ InitBatchVars /\ InitMemoVars /\ InitOverlapVars /\ InitConfirmVars

OthersOfMeta ==
  UNCHANGED <<killVars, limVars, dashVars, parseVars, refreshVars, renderVars,
              killPortVars, cacheVars, etimeVars, keyboardVars, searchVars, filterVars,
              handleKillVars, adapterVars, keysVars, sortVars, batchVars, memoVars,
              overlapVars, confirmVars>>

\* one metadata pass of an adapter of either platform
InitMeta ==
  /\ InitOthersOfMeta
  /\ mmPlatform \in {"unix", "win32"}
  /\ mmCaller = "none"
  /\ mmPids = {}
  /\ mmOut = [command |-> NoMeta, cwd |-> NoMeta, lifetime |-> NoMeta]
  /\ mmInfo = <<>>
  /\ mmPorts = {}
  /\ mmPc = "start"

NextMeta ==
  \/ \E pids \in SUBSET Pids :
       \E command \in MetaOutcomes(pids), cwd \in MetaOutcomes(pids),
          lifetime \in MetaOutcomes(pids) :
         MetaDetectPorts(pids, command, cwd, lifetime) /\ OthersOfMeta
  \/ \E pid \in Pids :
       \E command \in MetaOutcomes({pid}), cwd \in MetaOutcomes({pid}),
          lifetime \in MetaOutcomes({pid}) :
         MetaGetProcessInfo(pid, command, cwd, lifetime) /\ OthersOfMeta

SpecMeta == InitMeta /\ [][NextMeta]_vars

InitOthersOfMemo ==
  /\ InitKillVars /\ platform = "unix" /\ InitLimVars /\ InitDashVars
  /\ InitParseVars /\ InitRefreshVars /\ InitRenderVars /\ InitKillPortVars
  /\ InitCacheVars /\ InitEtimeVars /\ InitKeyboardVars /\ InitSearchVars
  /\ InitFilterVars /\ InitHandleKillVars /\ InitAdapterVars /\ InitKeysVars
  /\ InitSortVars /\ InitBatchVars /\ InitMetaVars /\ InitOverlapVars /\ InitConfirmVars

OthersOfMemo ==
  UNCHANGED <<killVars, limVars, dashVars, parseVars, refreshVars, renderVars,
              killPortVars, cacheVars, etimeVars, keyboardVars, searchVars, filterVars,
              handleKillVars, adapterVars, keysVars, sortVars, batchVars, metaVars,
              overlapVars, confirmVars>>

\* the memo of getFilteredPorts of a dashboard started with or without --sort
InitMemo ==
  /\ InitOthersOfMemo
  /\ mzCliSort \in {"none", "port", "pid"}
  /\ mzGroups = <<>>
  /\ mzFilter = <<>>
  /\ mzSortBy = "port"
  /\ mzSearching = FALSE
  /\ mzSelected = 0
  /\ mzCache = NoMemo
  /\ mzCalls = <<>>
  /\ mzPresses = 0
  /\ mzBeforeG = <<>>

NextMemo ==
  \/ \E gs \in MemoSnapshots : MzRefresh(gs) /\ OthersOfMemo
  \/ \E direction \in {-1, 1} : MzKeyMove(direction) /\ OthersOfMemo
  \/ MzKeyToggleGroup /\ OthersOfMemo
  \/ \E key \in SortKeys : MzKeySort(key) /\ OthersOfMemo
  \/ MzKeySearch /\ OthersOfMemo
  \/ \E f \in Filters : MzKeyFilter(f) /\ OthersOfMemo

SpecMemo == InitMemo /\ [][NextMemo]_vars

InitOthersOfOverlap ==
  /\ InitKillVars /\ platform = "unix" /\ InitLimVars /\ InitDashVars
  /\ InitParseVars /\ InitRefreshVars /\ InitRenderVars /\ InitKillPortVars
  /\ InitCacheVars /\ InitEtimeVars /\ InitKeyboardVars /\ InitSearchVars
  /\ InitFilterVars /\ InitHandleKillVars /\ InitAdapterVars /\ InitKeysVars
  /\ InitSortVars /\ InitBatchVars /\ InitMetaVars /\ InitMemoVars /\ InitConfirmVars

OthersOfOverlap ==
  UNCHANGED <<killVars, limVars, dashVars, parseVars, refreshVars, renderVars,
              killPortVars, cacheVars, etimeVars, keyboardVars, searchVars, filterVars,
              handleKillVars, adapterVars, keysVars, sortVars, batchVars, metaVars,
              memoVars, confirmVars>>

\* refreshes of the timer and of actions, overlapping or not
InitOverlap ==
  /\ InitOthersOfOverlap
  /\ ovWorld \in Snapshots
  /\ ovCalls = <<>>
  /\ ovGroups = <<>>
  /\ ovApplied = 0

NextOverlap ==
  \/ \E gs \in Snapshots : OvWorldChange(gs) /\ OthersOfOverlap
  \/ \E by \in {"timer", "action"} : OvRefresh(by) /\ OthersOfOverlap
  \/ \E i \in 1..MaxCalls : OvRead(i) /\ OthersOfOverlap
  \/ \E i \in 1..MaxCalls : OvRefreshDone(i) /\ OthersOfOverlap

SpecOverlap == InitOverlap /\ [][NextOverlap]_vars

InitOthersOfConfirm ==
  /\ InitKillVars /\ platform = "unix" /\ InitLimVars /\ InitDashVars
  /\ InitParseVars /\ InitRefreshVars /\ InitRenderVars /\ InitKillPortVars
  /\ InitCacheVars /\ InitEtimeVars /\ InitKeyboardVars /\ InitSearchVars
  /\ InitFilterVars /\ InitHandleKillVars /\ InitAdapterVars /\ InitKeysVars
  /\ InitSortVars /\ InitBatchVars /\ InitMetaVars /\ InitMemoVars /\ InitOverlapVars

OthersOfConfirm ==
  UNCHANGED <<killVars, limVars, dashVars, parseVars, refreshVars, renderVars,
              killPortVars, cacheVars, etimeVars, keyboardVars, searchVars, filterVars,
              handleKillVars, adapterVars, keysVars, sortVars, batchVars, metaVars,
              memoVars, overlapVars>>

\* the keys that read or write the confirmation modal, and the kill key
InitConfirm == InitOthersOfConfirm /\ InitConfirmVars

NextConfirm ==
  \/ \E port \in {NoPort, PortA.port, PortB.port} : CfSelect(port) /\ OthersOfConfirm
  \/ CfKeyHelp /\ OthersOfConfirm
  \/ CfKeySearch /\ OthersOfConfirm
  \/ CfKeyEscape /\ OthersOfConfirm
  \/ CfKeyEnter /\ OthersOfConfirm
  \/ CfKeyKill /\ OthersOfConfirm

SpecConfirm == InitConfirm /\ [][NextConfirm]_vars

(***************************************************************************)
(* Claims about killProcess (SpecKill).                                    *)
(***************************************************************************)
Count(log, what) == Cardinality({i \in DOMAIN log : log[i] = what})

\* the graceful request was made and the tool exited 0
TermAccepted == ~killForce /\ termRes.kind = "close" /\ exitCode(termRes) = 0

\* the liveness check completed and says the process is gone / still there
\* (ps exits non-zero; tasklist exits non-zero or prints nothing)
CheckSaysAlive ==
  /\ checkRes.kind = "close"
  /\ exitCode(checkRes) = 0
  /\ (platform = "win32" => checkRes.out)
CheckSaysGone == checkRes.kind = "close" /\ ~CheckSaysAlive

\* C1: a graceful kill whose request is accepted and whose liveness check
\* finds the process gone returns true, and never issues the forceful command.
C1_GracefulExitNoForce ==
  (TermAccepted /\ CheckSaysGone) =>
     /\ killPc = "returned"
     /\ killResult = TRUE
     /\ Count(killLog, "FORCE") = 0
     /\ forceRes = NoRes

C1_Witness ==
  /\ killPc = "returned" /\ TermAccepted /\ CheckSaysGone /\ killResult
  /\ platform = "win32" /\ checkRes.code = 0 /\ killLog = <<"TERM", "WAIT", "CHECK">>

\* C2: a graceful kill whose request is accepted and whose liveness check
\* finds the process alive issues exactly one forceful command, and returns
\* true exactly when that command exits zero.
C2_SurvivorEscalatesOnce ==
  (TermAccepted /\ CheckSaysAlive) =>
     /\ killPc \in {"escalate", "returned"}
     /\ killPc = "escalate" => Count(killLog, "FORCE") = 0
     /\ killPc = "returned" =>
          /\ Count(killLog, "FORCE") = 1
          /\ killResult = (forceRes.kind = "close" /\ exitCode(forceRes) = 0)

C2_Witness ==
  /\ killPc = "returned" /\ TermAccepted /\ CheckSaysAlive
  /\ forceRes.kind = "close" /\ forceRes.code = 1 /\ ~killResult
  /\ killLog = <<"TERM", "WAIT", "CHECK", "FORCE">>

\* C3: a graceful kill whose request exits non-zero returns false at once:
\* no wait, no liveness check, no forceful command.
C3_RejectedTermReturnsAtOnce ==
  (~killForce /\ termRes.kind = "close" /\ exitCode(termRes) # 0) =>
     /\ killPc = "returned"
     /\ killResult = FALSE
     /\ killLog = <<"TERM">>
     /\ checkRes = NoRes /\ forceRes = NoRes

C3_Witness ==
  /\ killPc = "returned" /\ ~killForce /\ termRes.kind = "close" /\ termRes.code = 1
  /\ ~killResult /\ killLog = <<"TERM">>

\* C4: a forced kill issues exactly one forceful command, no graceful request
\* and no liveness check, and returns true exactly when that command exits zero.
C4_ForcedKill ==
  (killForce /\ killPc # "idle") =>
     /\ Count(killLog, "TERM") = 0 /\ Count(killLog, "CHECK") = 0
     /\ Count(killLog, "WAIT") = 0
     /\ termRes = NoRes /\ checkRes = NoRes
     /\ killPc \in {"force", "returned"}
     /\ killPc = "returned" =>
          /\ killLog = <<"FORCE">>
          /\ killResult = (forceRes.kind = "close" /\ exitCode(forceRes) = 0)

C4_Witness ==
  /\ killForce /\ killPc = "returned" /\ killLog = <<"FORCE">>
  /\ forceRes.kind = "close" /\ forceRes.code = 0 /\ killResult

\* C5: whenever a killProcess call returns, whatever its outcome, the
\* adapter's metadata cache holds no entry for the pid of the call.
C5_CacheInvalidatedOnReturn ==
  [][(killPc # "returned" /\ killPc' = "returned") => killPid' \notin processInfoCache']_vars

(***************************************************************************)
(* Claims about the ConcurrencyLimiter (SpecLimiter).                      *)
(***************************************************************************)

\* C9: the number of tasks started and not yet settled never exceeds the limit.
C9_InFlightAtMostLimit ==
  /\ Cardinality(InFlight) <= limit
  /\ running = Cardinality(InFlight)

C9_Witness ==
  /\ Cardinality(InFlight) = limit
  /\ Len(queue) > 0
  /\ settled # {}
  /\ lastOutcome = "reject"

\* C10: queued tasks start in the order they were queued: a queued task never
\* starts before one that was queued earlier.
C10_QueuedStartFifo ==
  /\ \A i, j \in DOMAIN started :
       (i < j /\ started[i] \in everQueued /\ started[j] \in everQueued)
          => started[i] < started[j]
  /\ \A a, b \in everQueued :
       (a < b /\ b \in Range(started)) => a \in Range(started)

C10_Witness ==
  \E a, b \in everQueued : a # b /\ {a, b} \subseteq Range(started)

\* every task submitted so far has started
AllStarted == \A t \in 1..submitted : t \in Range(started)

\* C34: provided every started task settles in the end, every submitted task
\* starts in the end: again and again every task submitted so far has
\* started (a task once started stays started).  And the queue is never
\* non-empty while fewer than limit tasks are running, a slot released by
\* resolve or by reject going to the oldest queued task at once.
C34_SubmittedEventuallyStarts ==
  /\ [](Len(queue) > 0 => running = limit)
  /\ []<>AllStarted

\* a task that had to queue has started, after a rejected one released a slot
C34_Witness ==
  /\ \E t \in everQueued : t \in Range(started) /\ t \notin settled
  /\ lastOutcome = "reject"
  /\ Len(queue) > 0

(***************************************************************************)
(* Claims about the dashboard (SpecDash).                                  *)
(***************************************************************************)
KillsInFlight ==
  pending["kill.killPort"] + pending["kill.delay"] + pending["kill.refresh"]
    + pending["kill.catchRefresh"]

\* C6: the loading state never stays set: once no kill lifecycle is in
\* progress any more, whatever threw in it, isKilling is false and
\* killingPort is null.
C6_KillingCleared ==
  KillsInFlight = 0 => (~isKilling /\ killingPort = NoPort)

\* C7: at most one of showHelp, showConfirm, showLogs, showCommand, showStats
\* and searching is true.
C7_AtMostOneModal ==
  Cardinality({i \in 1..6 : flags[i]}) <= 1

\* C8: over a list of N >= 1 rows moveSelection(-1) at index 0 gives N - 1 and
\* moveSelection(+1) at index N - 1 gives 0; over an empty list the index is
\* left as it was.
C8_SelectionWraps ==
  LET N == Len(Flat(groups, filter))
  IN  /\ (lastMove.delta = -1 /\ lastMove.from = 0 /\ N >= 1) => selectedIndex = N - 1
      /\ (lastMove.delta = 1 /\ lastMove.from = N - 1 /\ N >= 1) => selectedIndex = 0
      /\ (lastMove.delta # 0 /\ N = 0) => selectedIndex = lastMove.from

C8_Witness ==
  /\ lastMove.delta = -1 /\ lastMove.from = 0
  /\ Len(Flat(groups, filter)) = 3
  /\ selectedIndex = 2

(***************************************************************************)
(* Claims about detectPorts and the listing parsers (SpecParse).           *)
(***************************************************************************)

\* C11: the list detectPorts() returns for one cycle, on Unix and on Windows,
\* holds at most one PortInfo per (port, pid) pair, also when the tool lists
\* the same (port, pid) on several lines.
C11_OnePerPortPid ==
  parsePc = "returned" =>
    \A i, j \in DOMAIN detected :
      (detected[i].port = detected[j].port /\ detected[i].pid = detected[j].pid) => i = j

\* a netstat row of the form  Proto LocalAddr ForeignAddr LISTENING PID
ListeningRow(parts) ==
  /\ Len(parts) = 5
  /\ parts[1] \in {Word.TCP, Word.UDP}
  /\ parts[4] = Word.LISTENING
  /\ parts[5] # <<>> /\ \A i \in DOMAIN parts[5] : IsDigit(parts[5][i])
  /\ \E k \in DOMAIN parts[2] : parts[2][k] = ":"

\* the number after the last ':' of a local address
PortOfAddr(addr) ==
  LET last == CHOOSE k \in DOMAIN addr :
                addr[k] = ":" /\ \A j \in DOMAIN addr : addr[j] = ":" => j <= k
  IN  parseInt(SubSeq(addr, last + 1, Len(addr)))

\* C12: parseNetstatOutput yields, for every row of the form
\* Proto LocalAddr ForeignAddr LISTENING PID, a PortInfo with the port after
\* the last ':' of LocalAddr and the pid PID, and yields nothing for any
\* other row.
C12_ListeningRowsParsed ==
  (platform = "win32" /\ parsePc = "returned") =>
    /\ \A i \in DOMAIN listing :
         ListeningRow(listing[i]) =>
           \E j \in DOMAIN detected :
             /\ detected[j].port = PortOfAddr(listing[i][2])
             /\ detected[j].pid = parseInt(listing[i][5])
    /\ \A j \in DOMAIN detected :
         \E i \in DOMAIN listing :
           /\ ListeningRow(listing[i])
           /\ detected[j].port = PortOfAddr(listing[i][2])
           /\ detected[j].pid = parseInt(listing[i][5])

(***************************************************************************)
(* Claims about Dashboard.refresh() (SpecRefresh).                         *)
(***************************************************************************)

\* C13: when detectPorts fails, refresh returns without throwing and leaves
\* state.ports, state.groups, state.lastUpdate and state.selectedIndex as they
\* were: the previous successful snapshot stays displayed.
C13_FailedRefreshKeepsSnapshot ==
  lastRefresh.kind = "failed" =>
    /\ groups = lastRefresh.groups
    /\ selectedIndex = lastRefresh.selectedIndex
    /\ statePorts = lastRefresh.ports
    /\ lastUpdate = lastRefresh.lastUpdate

C13_Witness ==
  /\ lastRefresh.kind = "failed"
  /\ Len(groups) = 2 /\ Len(statePorts) = 3
  /\ lastUpdate > 0 /\ selectedIndex > 0
  /\ pending["timer.refresh"] = 0 /\ KillsInFlight = 0

RowBudget == view.height - (IF view.showDetails THEN 6 ELSE 4)

\* the lines that changed since the previous frame: the old and the new
\* selection line when the selection moved, and the line of every visible row
\* whose data differs from the previous frame at the same index
LinesChanged ==
  (IF frameBefore.selectedIndex # view.selectedIndex
     THEN {frameBefore.selectedIndex + 2, view.selectedIndex + 2} ELSE {})
  \cup {l \in 2..(RowBudget - 1) :
          /\ l - 1 <= Len(frameBefore.filteredPorts) /\ l - 1 <= Len(view.rows)
          /\ frameBefore.filteredPorts[l - 1] # view.rows[l - 1]}

FrameDiffers ==
  \/ ~frameBefore.valid
  \/ Len(frameBefore.filteredPorts) # Len(view.rows)
  \/ frameBefore.filter # view.filter
  \/ frameBefore.sortBy # view.sortBy
  \/ frameBefore.showDetails # view.showDetails

\* C15: render() repaints the whole screen whenever a modal is active, there
\* is no previous frame or it differs in row count, filter, sort key or detail
\* flag, a toast is set, or the changed lines exceed half of the visible row
\* budget; it takes the delta path only when none of these holds.
C15_FullRepaintCases ==
  renderPc = "done" =>
    ( painted.path \in {"modal", "full"}
        <=> \/ view.modal
            \/ FrameDiffers
            \/ view.killMessage = "live"
            \/ 2 * Cardinality(LinesChanged) > RowBudget )
    /\ painted.path \in {"modal", "full", "delta"}

C15_Witness ==
  /\ renderPc = "done" /\ painted.path = "full"
  /\ ~view.modal /\ ~FrameDiffers /\ view.killMessage = "none"
  /\ view.height = 10 /\ Cardinality(LinesChanged) = 3

\* only the selection index differs from the previous frame: same rows and
\* row data, filter, sort key and detail flag, no modal, no toast; the old
\* and the new index are rows of the list
OnlySelectionDiffers ==
  /\ renderPc = "done"
  /\ ~view.modal /\ view.killMessage = "none"
  /\ ~FrameDiffers
  /\ frameBefore.filteredPorts = view.rows
  /\ frameBefore.selectedIndex # view.selectedIndex
  /\ frameBefore.selectedIndex < Len(view.rows) /\ view.selectedIndex < Len(view.rows)

\* C16 as stated: when only the selection index differs, render takes the
\* delta path and the port lines it repaints are exactly the old and the new
\* selection line, together with the header.
C16_SelectionDeltaExact ==
  OnlySelectionDiffers =>
    /\ painted.path = "delta"
    /\ painted.header
    /\ painted.rows = {frameBefore.selectedIndex + 2, view.selectedIndex + 2}

\* C16 amended: when only the selection index differs and the visible row
\* budget is at least 4, render takes the delta path and repaints the header,
\* the detail section when details are shown, and of the port lines exactly
\* those of the old and the new selection line that lie inside the budget.
C16_SelectionDeltaVisible ==
  (OnlySelectionDiffers /\ RowBudget >= 4) =>
    /\ painted.path = "delta"
    /\ painted.header
    /\ painted.details = view.showDetails
    /\ painted.rows = {l \in {frameBefore.selectedIndex + 2, view.selectedIndex + 2} :
                         l < RowBudget}

C16_Witness ==
  /\ OnlySelectionDiffers /\ RowBudget = 4
  /\ painted.path = "delta"
  /\ frameBefore.selectedIndex = 2 /\ view.selectedIndex = 0
  /\ painted.rows = {2}

(***************************************************************************)
(* Claims about killPortByNumber (SpecKillPort).                           *)
(***************************************************************************)
\* the call has returned and detectPorts() had given a snapshot
KpReturnedFromSnapshot ==
  kpPc = "returned" /\ kpReturn.message.template # "Error killing port"

\* the positions of the snapshot bound to the port asked for, and those among
\* the kills, in snapshot order, that resolved to true
KpBound == {i \in DOMAIN kpSnapshot : kpSnapshot[i].port = kpPort}
KpRank(i) == Cardinality({j \in KpBound : j <= i})
KpSucceeded == {i \in KpBound : kpResults[KpRank(i)]}

\* C17: killProcess is attempted, with the force argument, for every snapshot
\* entry bound to the port; with no such entry or with every kill failing the
\* result has success = false and no killed entry; with at least one kill
\* succeeding it has success = true and killed lists exactly the entries whose
\* kill returned true, and the message gives the number of failures when
\* some but not all kills failed.
C17_KillPortByNumberResult ==
  KpReturnedFromSnapshot =>
    /\ Len(kpCalls) = Cardinality(KpBound) /\ Len(kpResults) = Len(kpCalls)
    /\ \A i \in KpBound :
         kpCalls[KpRank(i)] = [pid |-> kpSnapshot[i].pid, force |-> kpForce]
    /\ IF KpSucceeded = {}
         THEN /\ kpReturn.success = FALSE /\ kpReturn.killed = <<>>
              /\ kpReturn.message.template \in
                   {"No process found using port", "Failed to kill processes on port"}
              /\ (kpReturn.message.template = "No process found using port") <=> (KpBound = {})
         ELSE /\ kpReturn.success = TRUE
              /\ Len(kpReturn.killed) = Cardinality(KpSucceeded)
              /\ \A i \in KpSucceeded :
                   kpReturn.killed[Cardinality({j \in KpSucceeded : j <= i})] = kpSnapshot[i]
              /\ kpReturn.message.killed = Cardinality(KpSucceeded)
              /\ IF KpSucceeded # KpBound
                   THEN /\ kpReturn.message.template =
                             "Killed N process(es) on port P, but M failed"
                        /\ kpReturn.message.failed = Cardinality(KpBound \ KpSucceeded)
                   ELSE kpReturn.message.template =
                          "Successfully killed N process(es) on port"

C17_Witness ==
  /\ KpReturnedFromSnapshot
  /\ Cardinality(KpBound) = 2 /\ kpResults = <<FALSE, TRUE>>
  /\ kpReturn.success /\ kpReturn.message.failed = 1
  /\ kpReturn.killed = <<[port |-> 80, pid |-> 2]>>

(***************************************************************************)
(* Claims about the process metadata cache (SpecCache).                    *)
(***************************************************************************)
\* the last operation on pid was a set made less than ttl ago
FreshSet(pid) == cmLastOp[pid].op = "set" /\ cmNow - cmLastOp[pid].at < ttl

\* C18 as stated: get(pid) returns the entry e exactly when the most recent
\* set or delete on pid was set(pid, e), made less than ttl ago; otherwise,
\* ttl after that set or after delete(pid), it is a miss.
C18_HitIffFreshSet ==
  cmGot # NoGet =>
    /\ cmGot.hit <=> FreshSet(cmGot.pid)
    /\ cmGot.hit => cmGot.value = cmLastOp[cmGot.pid].value

\* C18, amended: get(pid) returns the entry e exactly when the most recent
\* set or delete on pid was set(pid, e), made less than ttl ago, and the
\* entry has not been evicted since to make room at capacity; otherwise it
\* is a miss.
C18_HitIffFreshSetKept ==
  cmGot # NoGet =>
    /\ cmGot.hit <=> (FreshSet(cmGot.pid) /\ ~cmLastOp[cmGot.pid].evicted)
    /\ cmGot.hit => cmGot.value = cmLastOp[cmGot.pid].value

\* a get that hits an entry set earlier, before its ttl has elapsed
C18_Witness ==
  /\ cmGot.pid \in CachePids /\ cmGot.hit
  /\ cmLastOp[cmGot.pid].at < cmNow

(***************************************************************************)
(* Claims about parseEtime (SpecEtime).                                    *)
(***************************************************************************)
\* C19: for an etime string of the form dd-hh:mm:ss, hh:mm:ss or mm:ss,
\* parseEtime returns days*86400 + hours*3600 + minutes*60 + seconds, the
\* absent fields counted as 0, when that total is positive, and undefined
\* when it is zero; 01:02:03 gives 3723, 2-03:04:05 gives 183845, 05:06
\* gives 306 and 00:00 gives no lifetime.
C19_EtimeSeconds ==
  etPc = "done" =>
    LET total == etElapsed.days * 86400 + etElapsed.hours * 3600
                   + etElapsed.minutes * 60 + etElapsed.seconds
    IN  /\ total > 0 => etResult = [known |-> TRUE, seconds |-> total]
        /\ total = 0 => etResult = [known |-> FALSE, seconds |-> 0]
        /\ etStr = <<"0", "1", ":", "0", "2", ":", "0", "3">> => etResult.seconds = 3723
        /\ etStr = <<"2", "-", "0", "3", ":", "0", "4", ":", "0", "5">>
             => etResult.seconds = 183845
        /\ etStr = <<"0", "5", ":", "0", "6">> => etResult.seconds = 306
        /\ etStr = <<"0", "0", ":", "0", "0">> => ~etResult.known

\* parseEtime has returned for 2-03:04:05
C19_Witness ==
  /\ etPc = "done"
  /\ etStr = <<"2", "-", "0", "3", ":", "0", "4", ":", "0", "5">>
  /\ etResult.known

(***************************************************************************)
(* Claims about the KeyboardHandler dispatch (SpecKeyboard).               *)
(***************************************************************************)
\* the handlers an event called, in order
Called == [i \in DOMAIN kbCalls |-> kbCalls[i].handler]

\* the exact handler, then the wildcard handler, each if registered
ExactThenWildcard ==
  (IF kbEvent \in kbHandlers THEN <<kbEvent>> ELSE <<>>)
    \o (IF "*" \in kbHandlers THEN <<"*">> ELSE <<>>)

\* the exact handler of the event was called and ended with outcome
ExactEnded(outcome) ==
  kbEvent \in kbHandlers /\ kbCalls # <<>> /\ kbCalls[1].outcome = outcome

\* an event other than ctrl+c whose exact handler, if any, returned
Dispatched == kbEvent \notin {NoEvent, "ctrl+c"} /\ ~ExactEnded("throws")

C21_CtrlCBypassesHandlers ==
  kbEvent = "ctrl+c" => ~kbRawMode /\ kbExited /\ kbCalls = <<>>

\* ctrl+c arrived while handlers for ctrl+c and for every key were registered
C21_Witness ==
  kbEvent = "ctrl+c" /\ {"ctrl+c", "*"} \subseteq kbHandlers /\ kbExited

\* C22: a failing key handler cannot crash the input loop: when a handler
\* rejects or throws, the error does not leave the data listener and the
\* later key events are still decoded and dispatched.
C22_FailingHandlerContained ==
  (\E i \in DOMAIN kbCalls : kbCalls[i].outcome \in {"rejects", "throws"})
    => ~kbCrashed /\ ENABLED (\E sequence \in ByteSequences : KeyData(sequence, "void", "void"))

(***************************************************************************)
(* Claims about search mode (SpecSearch).                                  *)
(***************************************************************************)
\* C23: escape pressed while searching leaves search mode and clears the
\* port filter buffer: state.filter is empty afterwards, and the digits
\* d1..dn typed in a search that follows give a filter of exactly d1..dn.
C23_EscapeClearsFilter ==
  typed.cancelled =>
    /\ ~searching => filter = <<>>
    /\ searching => filter = typed.digits

(***************************************************************************)
(* Claims about getFilteredPorts (SpecFilter).                             *)
(***************************************************************************)
\* the ports of the groups that are not collapsed, in group order
RECURSIVE ShownPorts(_)
ShownPorts(gs) ==
  IF gs = <<>> THEN <<>>
  ELSE ShownPorts(SubSeq(gs, 1, Len(gs) - 1))
         \o (IF gs[Len(gs)].collapsed THEN <<>> ELSE gs[Len(gs)].ports)

\* f, or lower-cased f, is part of one of the three texts of the port
FilterSelects(p, f) ==
  \/ \E i \in 0..Len(toString(p.port)) :
        i + Len(f) <= Len(toString(p.port))
          /\ \A k \in 1..Len(f) : toString(p.port)[i + k] = f[k]
  \/ \E i \in 0..Len(p.processName) :
        i + Len(f) <= Len(p.processName)
          /\ \A k \in 1..Len(f) : LowerChar(p.processName[i + k]) = LowerChar(f[k])
  \/ \E i \in 0..Len(p.command) :
        i + Len(f) <= Len(p.command)
          /\ \A k \in 1..Len(f) : LowerChar(p.command[i + k]) = LowerChar(f[k])

C25_TimerNeverSuppressed ==
  isRunning =>
    /\ PendingTotal < MaxPending => ENABLED TimerTick
    /\ pending["timer.refresh"] > 0 =>
         \A res \in DetectResults : ENABLED TimerRefreshDone(res)

\* a refresh started by the timer is under way while a modal is shown and a
\* kill is in progress
C25_Witness ==
  /\ isRunning /\ pending["timer.refresh"] > 0
  /\ showHelp /\ isKilling

(***************************************************************************)
(* Claims about the order of handleKill (SpecHandleKill).                  *)
(***************************************************************************)
\* the positions of an event in the log
At(log, what) == {i \in DOMAIN log : log[i] = what}

\* the order the kill lifecycle has when nothing throws
LifecycleOrder ==
  <<"killing set", "repaint", "kill attempt", "toast set", "filtered cache cleared",
    "detector cache cleared", "delay", "discovery", "repaint", "killing cleared",
    "repaint">>

\* the log without the repaint that shows the toast
WithoutToastRepaint(log) ==
  IF Len(log) >= 5 /\ log[4] = "toast set" /\ log[5] = "repaint"
    THEN SubSeq(log, 1, 4) \o SubSeq(log, 6, Len(log))
    ELSE log

\* C26: in every kill request with a selected port, however killProcess ended
\* (true, false, thrown), before Killing is cleared the detector's snapshot
\* cache is cleared after the kill attempt and a discovery is run after that;
\* when nothing throws the order is: Killing set and repaint, kill attempt,
\* toast set (and shown), both caches cleared, the delay, discovery, repaint,
\* Killing cleared and repaint.
C26_KillLifecycleOrder ==
  /\ \A c \in At(hkLog, "killing cleared") :
        \E k \in At(hkLog, "kill attempt"), i \in At(hkLog, "detector cache cleared"),
           d \in At(hkLog, "discovery") :
          k < i /\ i < d /\ d < c
  /\ hkPc = "done" /\ hkSelected # NoPort /\ ~hkThrown =>
        /\ WithoutToastRepaint(hkLog) = LifecycleOrder
        /\ ~hkKilling

\* a lifecycle in which the adapter's killProcess threw has run to its end
\* with nothing thrown inside handleKill
C26_Witness ==
  /\ hkPc = "done" /\ hkSelected # NoPort
  /\ hkOutcome = "throws" /\ ~hkThrown /\ hkLog # <<>>

(***************************************************************************)
(* Claims about the adapter instances (SpecAdapter).                       *)
(***************************************************************************)
\* C27: after the dashboard has killed pid P, the metadata cache that the
\* next discovery of the dashboard consults (the cache of the adapter the
\* Port Detector wraps) holds no entry for P.
C27_KillInvalidatesDetectorCache ==
  \A pid \in paKilled : pid \notin paCaches[DetectorAdapter]

(***************************************************************************)
(* Claims about the keys of normal navigation (SpecModalKeys).             *)
(***************************************************************************)
\* a step that handles one of these keys with a modal or the search active
ModalKeyStep == keyed' \in {"navigation", "digit"}

OrderedBy(ports, key) ==
  \A i, j \in DOMAIN ports : i < j => ~ComesBefore(ports[j], ports[i], key)

\* C29: after a refresh or a sort-key action has completed, the ports of
\* every group of state.groups are ordered by state.sortBy, the key the header
\* shows, whether or not a CLI sort option was given.
C29_GroupsOrderedBySortBy ==
  srLast # "none" =>
    \A i \in DOMAIN srGroups : OrderedBy(srGroups[i].ports, srSortBy)

(***************************************************************************)
(* Claims about getBatchProcessInfo (SpecBatch).                           *)
(***************************************************************************)
\* the requested pids with no unexpired entry when the pass was called
MissedPids ==
  {pid \in bpPids :
     \A i \in DOMAIN bpBefore.entries :
       bpBefore.entries[i].pid = pid =>
         bpBefore.now - bpBefore.entries[i].insertedAt >= ttl}

CommandsIssued == {i \in DOMAIN bpLog : bpLog[i].kind = "command"}

\* C30: a pass starts with the cache cleanup; its commands are issued for
\* exactly the pids that miss the cache, each metadata dimension by one command
\* for all of them together; when every pid hits no command is issued; and
\* every fetched pid is set in the cache before the pass returns.
C30_BatchPass ==
  bpLog # <<>> =>
    /\ bpLog[1].kind = "cleanup"
    /\ \A i \in DOMAIN bpLog : bpLog[i].kind = "cleanup" => i = 1
    /\ \A i \in CommandsIssued : bpLog[i].pids = MissedPids
    /\ \A dim \in Dimensions :
         Cardinality({i \in CommandsIssued : dim \in bpLog[i].dims})
           = (IF MissedPids = {} THEN 0 ELSE 1)
    /\ \A r \in DOMAIN bpLog : bpLog[r].kind = "return" =>
         /\ r = Len(bpLog)
         /\ \A pid \in MissedPids :
              /\ \E s \in 1..(r - 1) : bpLog[s].kind = "set" /\ bpLog[s].pids = {pid}
              /\ bpPc = "idle" /\ bpNow = bpBefore.now => CacheLookup(bpEntries, pid, bpNow).hit

\* a pass for two pids has returned after fetching one of them, the other one
\* being served from the cache
C30_Witness ==
  /\ bpPc = "idle" /\ bpLog # <<>> /\ bpLog[Len(bpLog)].kind = "return"
  /\ MissedPids # {} /\ MissedPids # bpPids

(***************************************************************************)
(* Claims about the metadata of a cycle (SpecMeta).                        *)
(***************************************************************************)
\* a metadata command failed or printed nothing for the pid
Missed(out, pid) == out.kind # "ok" \/ pid \notin out.found

\* the command that resolves the lifetime: ps on unix, its own query on windows
LifetimeOut == IF mmPlatform = "win32" THEN mmOut.lifetime ELSE mmOut.command

\* C31: a metadata command that fails, or returns nothing for a pid, never
\* makes the pass or the discovery cycle fail; the pid then carries the
\* placeholder of what was missed: command "unknown", cwd null, no lifetime,
\* and so does every PortInfo of that pid.
C31_MetadataMiss ==
  /\ mmPc # "rejected"
  /\ mmPc = "done" =>
       /\ DOMAIN mmInfo = mmPids
       /\ \A pid \in mmPids :
            /\ Missed(mmOut.command, pid) => mmInfo[pid].command = "unknown"
            /\ Missed(mmOut.cwd, pid) => mmInfo[pid].cwd = NoCwd
            /\ Missed(LifetimeOut, pid) => mmInfo[pid].lifetime = undefined
       /\ mmCaller = "detectPorts" =>
            /\ {row.pid : row \in mmPorts} = mmPids
            /\ \A row \in mmPorts :
                 /\ row.command = mmInfo[row.pid].command
                 /\ row.cwd = mmInfo[row.pid].cwd
                 /\ row.lifetime = mmInfo[row.pid].lifetime

\* a cycle with two listening pids has ended: every metadata command failed
\* for one of them and both rows are returned
C31_Witness ==
  /\ mmPc = "done" /\ mmCaller = "detectPorts" /\ Cardinality(mmPorts) = 2
  /\ \E row \in mmPorts :
       /\ Missed(mmOut.command, row.pid) /\ Missed(mmOut.cwd, row.pid)
       /\ row.command = "unknown" /\ row.cwd = NoCwd /\ row.lifetime = undefined

(***************************************************************************)
(* Claims about the kill message in render() (SpecRender).                 *)
(***************************************************************************)
\* render() has returned and was called later than killMessageExpiresAt
RenderedAfterExpiry == renderPc = "done" /\ toastBefore = "expired"

\* C32 as stated: after any render made later than killMessageExpiresAt, a
\* render made while a modal is active included, the kill message is cleared
\* and the frame does not show it.
C32_ToastClearedByEveryRender ==
  RenderedAfterExpiry => view.killMessage = "none" /\ ~toastPainted

\* C32 amended: the expiry check is part of every render() of the main view,
\* which clears an expired kill message before painting; a render made while
\* a modal is active leaves the message as it is; no frame painted after the
\* expiry shows the message.
C32_ToastClearedByMainRender ==
  RenderedAfterExpiry =>
    /\ ~toastPainted
    /\ ~view.modal => view.killMessage = "none"
    /\ view.modal => view.killMessage = toastBefore

\* the main view was painted after the expiry of a message
C32_Witness == RenderedAfterExpiry /\ ~view.modal /\ painted.path = "full"

(***************************************************************************)
(* Claims about the memo of getFilteredPorts (SpecMemo).                   *)
(***************************************************************************)
\* C33: every call of getFilteredPorts, from render, moveSelection,
\* getSelectedPort or refresh, returns what the recomputation from the
\* current groups, collapse flags, filter and sort order returns.
C33_MemoNeverStale ==
  \A i \in DOMAIN mzCalls : mzCalls[i].result = mzCalls[i].fresh

\* the same for the calls other than the one refresh() makes
MemoFreshOutsideRefresh ==
  \A i \in DOMAIN mzCalls :
    mzCalls[i].caller # "refresh" => mzCalls[i].result = mzCalls[i].fresh

\* the same when the dashboard was started without a CLI sort option
MemoFreshWithoutCliSort ==
  mzCliSort = "none" => \A i \in DOMAIN mzCalls : mzCalls[i].result = mzCalls[i].fresh

(***************************************************************************)
(* Claims about the ports parseLsofOutput reads (SpecParse).               *)
(***************************************************************************)
\* a listening row of lsof: an internet socket whose NAME ends in (LISTEN)
IsListeningRow(parts) ==
  /\ Len(parts) >= 10
  /\ parts[5] \in {Word.IPv4, Word.IPv6}
  /\ parts[Len(parts)] = Word.LISTEN

\* the decimal number after the last ':' of an address
PortAfterLastColon(addr) ==
  LET last == CHOOSE k \in DOMAIN addr :
                addr[k] = ":" /\ \A j \in DOMAIN addr : addr[j] = ":" => j <= k
  IN  DigitsValue(SubSeq(addr, last + 1, Len(addr)))

\* C35: parseLsofOutput returns one PortInfo for every listening row, in the
\* order of the rows, and its port is the decimal number after the last ':'
\* of the row's NAME address, for IPv4, wildcard and bracketed IPv6
\* addresses alike.
C35_PortAfterLastColon ==
  (platform = "unix" /\ parsePc = "returned") =>
    LET rows == SelectSeq(listing, IsListeningRow)
    IN  /\ Len(detected) = Len(rows)
        /\ \A i \in DOMAIN rows :
             i <= Len(detected) => detected[i].port = PortAfterLastColon(rows[i][9])

\* the same for listings without a bracketed address
PortAfterLastColonUnbracketed ==
  (platform = "unix" /\ parsePc = "returned"
     /\ \A i \in DOMAIN listing : Len(listing[i]) >= 9 => listing[i][9][1] # "[") =>
    LET rows == SelectSeq(listing, IsListeningRow)
    IN  /\ Len(detected) = Len(rows)
        /\ \A i \in DOMAIN rows : detected[i].port = PortAfterLastColon(rows[i][9])

(***************************************************************************)
(* Claims about overlapping refreshes (SpecOverlap).                       *)
(***************************************************************************)
\* C36: the snapshot a call of refresh() has put in the state is never
\* replaced by that of a call started earlier; once no call is suspended,
\* the state holds the snapshot of the call that started last.
C36_LastStartedWins ==
  /\ \A i \in DOMAIN ovCalls : ovCalls[i].pc = "done" => i <= ovApplied
  /\ (Suspended = {} /\ ovCalls # <<>>) =>
       /\ ovApplied = Len(ovCalls)
       /\ ovGroups = ovCalls[Len(ovCalls)].read

(***************************************************************************)
(* Claims about the loading state of overlapping kills (SpecDash).         *)
(***************************************************************************)
\* C37: while at least one kill lifecycle has started and has not reached
\* its last step, isKilling is true and killingPort is not null, also when
\* "k" was pressed again during an earlier kill.
C37_KillingWhileKillInFlight ==
  KillsInFlight > 0 => (isKilling /\ killingPort # NoPort)

(***************************************************************************)
(* Claims about the selection and the group toggle (SpecDash).             *)
(***************************************************************************)
\* the rows of the flattened list, recomputed from the state
Rows == Flat(groups, filter)

\* C38: selectedIndex is a row of the flattened list: with N >= 1 rows it is
\* within 0..N-1, with no row it is 0, after every key, digit, collapse
\* toggle and refresh.
C38_SelectionInRange ==
  IF Len(Rows) = 0 THEN selectedIndex = 0 ELSE selectedIndex \in 0..(Len(Rows) - 1)

\* the same right after the selection was moved
SelectionInRangeAfterMove ==
  lastMove.delta # 0 =>
    IF Len(Rows) = 0 THEN selectedIndex = lastMove.from
    ELSE selectedIndex \in 0..(Len(Rows) - 1)

\* C39: "g" pressed twice in a row while browsing, with no other event in
\* between, leaves every group's collapsed flag and the flattened list as
\* they were before the first press.
C39_ToggleTwiceRestores ==
  mzPresses = 2 =>
    /\ mzGroups = mzBeforeG
    /\ Flat(mzGroups, mzFilter) = Flat(mzBeforeG, mzFilter)

\* the same when the first press found no row to act on
ToggleTwiceOnNoRow ==
  (mzPresses = 2 /\ Flat(mzBeforeG, mzFilter) = <<>>) => mzGroups = mzBeforeG

(***************************************************************************)
(* Claims about the confirmation modal (SpecConfirm).                      *)
(***************************************************************************)
\* C40: the confirmation modal is never shown: showConfirm is false and
\* confirmAction is null in every reachable state, and every killPort call
\* of the kill key passes confirm = false and goes on to killProcess.
C40_ConfirmUnreachable ==
  /\ ~cfShowConfirm
  /\ cfConfirmAction = "null"
  /\ \A i \in DOMAIN cfCalls :
       ~cfCalls[i].confirm /\ cfCalls[i].does = "killProcess"

\* "k" was pressed on two rows, and the help screen is open
C40_Witness ==
  /\ Len(cfCalls) >= 2
  /\ cfCalls[1].port # cfCalls[2].port
  /\ cfShowHelp

====
